---------------------------- MODULE Spec2Model ----------------------------
(***************************************************************************)
(* dragonpy: the code generator (src/dragonpy/gen.py) walking an AST       *)
(* (src/dragonpy/ast.py) and emitting x86-64 assembly, followed by the     *)
(* execution of the emitted function on an x86-64 machine.                 *)
(*                                                                         *)
(* The generator's state is the Compiler object's fields and the text      *)
(* sink; one action per statement handler.  The recursion of               *)
(* _generate_statement over nested statements is kept as an explicit       *)
(* continuation (todo): what a handler still has to do after the call of a *)
(* child statement returns.  Expressions are generated by recursive        *)
(* operators inside the step of the statement that holds them.             *)
(***************************************************************************)
EXTENDS Integers, Sequences, FiniteSets, TLC

VARIABLES
    ast,             \* the Program handed to generate(): its function's statements
    _label_counter,  \* Compiler._label_counter
    _scopes,         \* Compiler._scopes: a list of name -> offset tables
    _scope,          \* Compiler._scope: index of the innermost table
    _stack_index,    \* Compiler._stack_index
    out,             \* the StringIO sink: the lines printed so far
    todo,            \* continuation of the statement recursion
    gen,             \* "new" | "generating" | "done" | "CompileError"
    cpu,             \* registers, flags and instruction pointer of the process
    mem,             \* the stack memory written so far (address -> word)
    proc,            \* "none" | "running" | "exited" | "SIGFPE" | "SIGSEGV"
    trace,           \* history: the lines executed so far, [pc, rsp, rax] before each
    blocks,          \* history: [first, last] line of the code of each Block
    slots,           \* history: [line, offset] of the pushq of each Declare
    calls,           \* history: the outcome of each earlier generate() of the instance
    package,         \* "dragonpy" | "dragon": whose lexer, parser and driver run
    source,          \* the source text, a sequence of characters
    lexer,           \* the Lexer object's fields
    tokens,          \* history: the tokens __next__ has returned, and how it ended
    parser,          \* the Parser object: its buffer, and what parse() came to
    driver           \* the driver: how far run() is, and the output path's file

vars == <<ast, _label_counter, _scopes, _scope, _stack_index, out, todo, gen,
          cpu, mem, proc, trace, blocks, slots, calls, package, source, lexer,
          tokens, parser, driver>>

genVars ==
    <<ast, _label_counter, _scopes, _scope, _stack_index, out, todo, gen, blocks,
      slots>>
runVars == <<cpu, mem, proc, trace>>
frontVars == <<package, source, lexer, tokens, parser, driver>>
otherVars == <<calls, frontVars>>

-----------------------------------------------------------------------------
(* Bounds of the model.                                                    *)

\* Decimal constants of the programs are 0..MaxConst.
MaxConst == 3
\* Width in bits of a machine word of the model (the program's is 64).
WordBits == 16

-----------------------------------------------------------------------------
(* Program constants.                                                      *)

_SIZEOF_INT == 8

-----------------------------------------------------------------------------
(* AST (src/dragonpy/ast.py).  Tokens are reduced to their payload.        *)

ConstantExp(value) == [t |-> "ConstantExp", value |-> value]
VarExp(name) == [t |-> "VarExp", name |-> name]
UnaryOpExp(op, exp) == [t |-> "UnaryOpExp", op |-> op, exp |-> exp]
BinaryOpExp(op, left, right) ==
    [t |-> "BinaryOpExp", op |-> op, left |-> left, right |-> right]
AssignExp(left, kind, right) ==
    [t |-> "AssignExp", left |-> left, kind |-> kind, right |-> right]
CommaExp(left, right) == [t |-> "CommaExp", left |-> left, right |-> right]
PostfixExp(exp, op) == [t |-> "PostfixExp", exp |-> exp, op |-> op]
ConditionalExp(cond, true_exp, false_exp) ==
    [t |-> "ConditionalExp", cond |-> cond, true_exp |-> true_exp,
     false_exp |-> false_exp]

UnaryOpKind ==
    {"Negation", "BitwiseComplement", "LogicalNegation", "Increment", "Decrement"}
BinaryOpKind ==
    {"Addition", "Subtraction", "Multiplication", "Division", "LessThan",
     "LessThanOrEqual", "GreaterThan", "GreaterThanOrEqual", "Equal", "NotEqual",
     "LogicalAnd", "LogicalOr", "Modulo", "BitwiseAnd", "BitwiseOr", "BitwiseXor",
     "BitwiseLeftShift", "BitwiseRightShift"}
AssignKind ==
    {"Simple", "Add", "Subtract", "Multiply", "Divide", "Modulo",
     "BitwiseLeftShift", "BitwiseRightShift", "BitwiseAnd", "BitwiseOr",
     "BitwiseXor"}
PostfixOpKind == {"Increment", "Decrement"}

\* Optional[...] = None
None == [t |-> "None"]
Initializer(exp) == [t |-> "Initializer", exp |-> exp]

ReturnStatement(exp) == [t |-> "ReturnStatement", exp |-> exp]
DeclareStatement(identifier, initializer) ==
    [t |-> "DeclareStatement", identifier |-> identifier,
     initializer |-> initializer]
ExpStatement(exp) == [t |-> "ExpStatement", exp |-> exp]
IfStatement(condition, then_statement, else_statement) ==
    [t |-> "IfStatement", condition |-> condition,
     then_statement |-> then_statement, else_statement |-> else_statement]
BlockStatement(statements) == [t |-> "BlockStatement", statements |-> statements]

-----------------------------------------------------------------------------
(* Assembly lines.  Every print(...) of gen.py is one line: a mnemonic and *)
(* up to two operands (AT&T order: source, destination).                   *)

NoOperand == [k |-> "none", r |-> "", n |-> 0]
Imm(n) == [k |-> "imm", r |-> "", n |-> n]           \* $n
Reg(r) == [k |-> "reg", r |-> r, n |-> 0]            \* %r
Mem(off) == [k |-> "mem", r |-> "rbp", n |-> off]    \* off(%rbp)
Lbl(template, n) == [k |-> "label", r |-> template, n |-> n]  \* .Lfalse3
Sym(name) == [k |-> "label", r |-> name, n |-> 0 - 1]         \* main

Line(op, src, dst) == [op |-> op, src |-> src, dst |-> dst]
Ins0(op) == Line(op, NoOperand, NoOperand)
Ins1(op, dst) == Line(op, NoOperand, dst)
LabelLine(l) == Line("label:", NoOperand, l)


-----------------------------------------------------------------------------
(* The generator (src/dragonpy/gen.py).                                    *)
(*   c: the scope state an expression reads, [scopes, scope];              *)
(*   g: what generating an expression changes, [label_counter, out, err],  *)
(*      err = "CompileError" once a CompileError has been raised (the      *)
(*      exception unwinds every caller: nothing more is emitted).          *)

EmptyTable == [name \in {} |-> 0]

Put(table, name, offset) ==
    [n \in DOMAIN table \cup {name} |-> IF n = name THEN offset ELSE table[n]]

\* Compiler._vars: the innermost table (lists are 0-based in the source).
innermost_vars(scopes, scope) == scopes[scope + 1]

\* Variant: the name recorded in the outermost table.
_put_var_outermost(scopes, scope, name, offset) ==
    [scopes EXCEPT ![1] = Put(@, name, offset)]

\* Variant: a name some table already holds is overwritten where it is.
_put_var_existing(scopes, scope, name, offset) ==
    IF \E i \in 1..(scope + 1) : name \in DOMAIN scopes[i]
    THEN LET i == CHOOSE i \in 1..(scope + 1) : name \in DOMAIN scopes[i]
         IN  [scopes EXCEPT ![i] = Put(@, name, offset)]
    ELSE [scopes EXCEPT ![scope + 1] = Put(@, name, offset)]

\* Compiler._put_var: the tables after self._vars()[name] = offset.
_put_var(scopes, scope, name, offset) ==
    [scopes EXCEPT ![scope + 1] = Put(@, name, offset)]

\* Variant: the outermost table that holds the name wins.
_get_var_outermost(name, scopes, scope) ==
    LET holders == {i \in 1..(scope + 1) : name \in DOMAIN scopes[i]}
    IN  IF holders = {} THEN [ok |-> FALSE, offset |-> 0]
        ELSE [ok |-> TRUE,
              offset |-> scopes[CHOOSE i \in holders : \A j \in holders : i <= j][name]]

\* Compiler._get_var: [ok, offset]; ok = FALSE stands for the CompileError.
RECURSIVE _get_var(_, _, _)
_get_var(name, scopes, scope) ==
    IF name \notin DOMAIN scopes[scope + 1]
    THEN IF scope = 0
         THEN [ok |-> FALSE, offset |-> 0]
         ELSE _get_var(name, scopes, scope - 1)
    ELSE [ok |-> TRUE, offset |-> scopes[scope + 1][name]]

\* Compiler._check_lvalue: [ok, name].
_check_lvalue(exp) ==
    IF exp.t = "VarExp"
    THEN [ok |-> TRUE, name |-> exp.name]
    ELSE [ok |-> FALSE, name |-> ""]

Raise(g) == [g EXCEPT !.err = "CompileError"]
Emit(g, lines) == IF g.err # "" THEN g ELSE [g EXCEPT !.out = @ \o lines]

\* Compiler._generate_label: the label made from the current counter.
_generate_label(template, g) == Lbl(template, g.label_counter)
\* Variant: the counter left as it was.
BumpLabel_stuck(g) == g
BumpLabel(g) == IF g.err # "" THEN g ELSE [g EXCEPT !.label_counter = @ + 1]

_generate_constant_exp(exp, g) ==
    Emit(g, <<Line("movq", Imm(exp.value), Reg("rax"))>>)

_generate_var_exp(exp, c, g) ==
    LET var == _get_var(exp.name, c.scopes, c.scope)
    IN  IF ~var.ok THEN Raise(g)
        ELSE Emit(g, <<Line("movq", Mem(var.offset), Reg("rax"))>>)

\* The lines _generate_unary_op_exp prints after its operand's code.
SetccLines(setcc) ==
    <<Ins1(setcc, Reg("al")), Line("movzbq", Reg("al"), Reg("rax"))>>

unary_op_tail(exp, c, g) ==
    CASE exp.op = "Negation" -> Emit(g, <<Ins1("neg", Reg("rax"))>>)
      [] exp.op = "BitwiseComplement" -> Emit(g, <<Ins1("not", Reg("rax"))>>)
      [] exp.op = "LogicalNegation" ->
            Emit(g, <<Line("cmpq", Imm(0), Reg("rax"))>> \o SetccLines("sete"))
      [] exp.op \in {"Increment", "Decrement"} ->
            LET lv == _check_lvalue(exp.exp)
                var == _get_var(lv.name, c.scopes, c.scope)
                arith == IF exp.op = "Increment" THEN "addq" ELSE "subq"
            IN  IF ~lv.ok THEN Raise(g)
                ELSE IF ~var.ok
                THEN Raise(Emit(g, <<Line(arith, Imm(1), Reg("rax"))>>))
                ELSE Emit(g, <<Line(arith, Imm(1), Reg("rax")),
                               Line("movq", Reg("rax"), Mem(var.offset))>>)

\* The lines _generate_binary_op_exp prints after "popq %rdi", per operator.
CmpLines(setcc) ==
    <<Line("cmpq", Reg("rax"), Reg("rdi"))>> \o SetccLines(setcc)

\* Variant: the operands of the subtraction the other way round.
subtraction_lines_swapped == <<Line("subq", Reg("rdi"), Reg("rax"))>>

\* case BinaryOpKind.Subtraction
subtraction_lines ==
    <<Line("subq", Reg("rax"), Reg("rdi")), Line("movq", Reg("rdi"), Reg("rax"))>>

binary_op_lines(op) ==
    CASE op = "Addition" -> <<Line("addq", Reg("rdi"), Reg("rax"))>>
      [] op = "Subtraction" -> subtraction_lines
      [] op = "Multiplication" -> <<Line("imulq", Reg("rdi"), Reg("rax"))>>
      [] op = "Division" ->
            <<Line("xchg", Reg("rax"), Reg("rdi")), Ins0("cqto"),
              Ins1("idivq", Reg("rdi"))>>
      [] op = "Equal" -> CmpLines("sete")
      [] op = "NotEqual" -> CmpLines("setne")
      [] op = "LessThan" -> CmpLines("setl")
      [] op = "LessThanOrEqual" -> CmpLines("setle")
      [] op = "GreaterThan" -> CmpLines("setg")
      [] op = "GreaterThanOrEqual" -> CmpLines("setge")
      [] op = "Modulo" ->
            <<Line("xchg", Reg("rax"), Reg("rdi")), Ins0("cqto"),
              Ins1("idivq", Reg("rdi")), Line("movq", Reg("rdx"), Reg("rax"))>>
      [] op = "BitwiseAnd" -> <<Line("andq", Reg("rdi"), Reg("rax"))>>
      [] op = "BitwiseOr" -> <<Line("orq", Reg("rdi"), Reg("rax"))>>
      [] op = "BitwiseXor" -> <<Line("xorq", Reg("rdi"), Reg("rax"))>>
      [] op = "BitwiseLeftShift" ->
            <<Line("movq", Reg("rdi"), Reg("rcx")),
              Line("salq", Reg("cl"), Reg("rax"))>>
      [] op = "BitwiseRightShift" ->
            <<Line("movq", Reg("rdi"), Reg("rcx")),
              Line("sarq", Reg("cl"), Reg("rax"))>>

\* The lines _generate_assign_exp prints after the right side's code.
LoadVar(var) == Line("movq", Mem(var), Reg("rdi"))
StoreFrom(r, var) == Line("movq", Reg(r), Mem(var))

\* Variant: the operands of the subtraction the other way round.
assign_subtract_lines_swapped(var) ==
    <<LoadVar(var), Line("subq", Reg("rdi"), Reg("rax")), StoreFrom("rax", var)>>

\* case AssignKind.Subtract
assign_subtract_lines(var) ==
    <<LoadVar(var), Line("subq", Reg("rax"), Reg("rdi")), StoreFrom("rdi", var)>>

assign_lines(kind, var) ==
    CASE kind = "Simple" -> <<StoreFrom("rax", var)>>
      [] kind = "Add" ->
            <<LoadVar(var), Line("addq", Reg("rax"), Reg("rdi")),
              StoreFrom("rdi", var)>>
      [] kind = "Subtract" -> assign_subtract_lines(var)
      [] kind = "Multiply" ->
            <<LoadVar(var), Line("imulq", Reg("rax"), Reg("rdi")),
              StoreFrom("rdi", var)>>
      [] kind = "Divide" ->
            <<LoadVar(var), Line("xchg", Reg("rax"), Reg("rdi")), Ins0("cqto"),
              Ins1("idivq", Reg("rdi")), StoreFrom("rax", var)>>
      [] kind = "Modulo" ->
            <<LoadVar(var), Line("xchg", Reg("rax"), Reg("rdi")), Ins0("cqto"),
              Ins1("idivq", Reg("rdi")), StoreFrom("rdx", var)>>
      [] kind = "BitwiseAnd" ->
            <<LoadVar(var), Line("andq", Reg("rax"), Reg("rdi")),
              StoreFrom("rdi", var)>>
      [] kind = "BitwiseOr" ->
            <<LoadVar(var), Line("orq", Reg("rax"), Reg("rdi")),
              StoreFrom("rdi", var)>>
      [] kind = "BitwiseXor" ->
            <<LoadVar(var), Line("xorq", Reg("rax"), Reg("rdi")),
              StoreFrom("rdi", var)>>
      [] kind = "BitwiseLeftShift" ->
            <<LoadVar(var), Line("movq", Reg("rax"), Reg("rcx")),
              Line("salq", Reg("cl"), Reg("rdi")), StoreFrom("rdi", var)>>
      [] kind = "BitwiseRightShift" ->
            <<LoadVar(var), Line("movq", Reg("rax"), Reg("rcx")),
              Line("sarq", Reg("cl"), Reg("rdi")), StoreFrom("rdi", var)>>

\* The lines _generate_postfix_exp prints after its operand's code.
postfix_lines(op, var) ==
    CASE op = "Increment" ->
            <<Line("addq", Imm(1), Reg("rax")), StoreFrom("rax", var)>>
      [] op = "Decrement" ->
            <<Line("subq", Imm(1), Reg("rax")), StoreFrom("rax", var)>>

\* The jump each short-circuit operator prints after testing its left side.
CmpZero == Line("cmpq", Imm(0), Reg("rax"))


RECURSIVE _generate_exp(_, _, _)

_generate_unary_op_exp(exp, c, g) ==
    LET g1 == _generate_exp(exp.exp, c, g)
    IN  IF g1.err # "" THEN g1 ELSE unary_op_tail(exp, c, g1)

\* Variant: the jump over the right side taken on the opposite condition.
_generate_logical_and_exp_jne(exp, c, g) ==
    LET g1 == Emit(_generate_exp(exp.left, c, g), <<CmpZero>>)
        false_label == _generate_label(".Lfalse", g1)
        g2 == Emit(BumpLabel(g1), <<Ins1("jne", false_label)>>)
        g3 == _generate_exp(exp.right, c, g2)
    IN  Emit(g3, <<CmpZero>> \o SetccLines("setne") \o <<LabelLine(false_label)>>)

_generate_logical_and_exp(exp, c, g) ==
    LET g1 == Emit(_generate_exp(exp.left, c, g), <<CmpZero>>)
        false_label == _generate_label(".Lfalse", g1)
        g2 == Emit(BumpLabel(g1), <<Ins1("je", false_label)>>)
        g3 == _generate_exp(exp.right, c, g2)
    IN  Emit(g3, <<CmpZero>> \o SetccLines("setne") \o <<LabelLine(false_label)>>)

\* Variant: the label printed before the left operand's code.
_generate_logical_or_exp_label_first(exp, c, g) ==
    LET true_label == _generate_label(".Ltrue", g)
        g0 == Emit(BumpLabel(g), <<LabelLine(true_label)>>)
        g1 == Emit(_generate_exp(exp.left, c, g0), <<CmpZero>>)
        g2 == Emit(g1, <<Ins1("jne", true_label)>>)
        g3 == _generate_exp(exp.right, c, g2)
    IN  Emit(g3, <<CmpZero>> \o SetccLines("setne"))

_generate_logical_or_exp(exp, c, g) ==
    LET g1 == Emit(_generate_exp(exp.left, c, g), <<CmpZero>>)
        true_label == _generate_label(".Ltrue", g1)
        g2 == Emit(BumpLabel(g1), <<Ins1("jne", true_label)>>)
        g3 == _generate_exp(exp.right, c, g2)
    IN  Emit(g3, <<LabelLine(true_label), CmpZero>> \o SetccLines("setne"))

_generate_logical_binary_op_exp(exp, c, g) ==
    CASE exp.op = "LogicalAnd" -> _generate_logical_and_exp(exp, c, g)
      [] exp.op = "LogicalOr" -> _generate_logical_or_exp(exp, c, g)

\* Variant: the left operand's value is never popped.
_generate_binary_op_exp_no_pop(exp, c, g) ==
    IF exp.op \in {"LogicalAnd", "LogicalOr"}
    THEN _generate_logical_binary_op_exp(exp, c, g)
    ELSE LET g1 == Emit(_generate_exp(exp.left, c, g), <<Ins1("pushq", Reg("rax"))>>)
             g2 == Emit(_generate_exp(exp.right, c, g1),
                        <<Line("movq", Reg("rax"), Reg("rdi"))>>)
         IN  Emit(g2, binary_op_lines(exp.op))

_generate_binary_op_exp(exp, c, g) ==
    IF exp.op \in {"LogicalAnd", "LogicalOr"}
    THEN _generate_logical_binary_op_exp(exp, c, g)
    ELSE LET g1 == Emit(_generate_exp(exp.left, c, g), <<Ins1("pushq", Reg("rax"))>>)
             g2 == Emit(_generate_exp(exp.right, c, g1), <<Ins1("popq", Reg("rdi"))>>)
         IN  Emit(g2, binary_op_lines(exp.op))

_generate_assign_exp(exp, c, g) ==
    LET g1 == _generate_exp(exp.right, c, g)
        var == _get_var(exp.left, c.scopes, c.scope)
    IN  IF g1.err # "" THEN g1
        ELSE IF ~var.ok THEN Raise(g1)
        ELSE Emit(g1, assign_lines(exp.kind, var.offset))

_generate_comma_exp(exp, c, g) ==
    _generate_exp(exp.right, c, _generate_exp(exp.left, c, g))

_generate_postfix_exp(exp, c, g) ==
    LET lv == _check_lvalue(exp.exp)
        g1 == _generate_exp(exp.exp, c, g)
    IN  IF ~lv.ok THEN Raise(g)
        ELSE IF g1.err # "" THEN g1
        ELSE Emit(g1, postfix_lines(exp.op,
                                    _get_var(lv.name, c.scopes, c.scope).offset))

_generate_conditional_exp(exp, c, g) ==
    LET g1 == Emit(_generate_exp(exp.cond, c, g), <<CmpZero>>)
        false_label == _generate_label(".Lfalse", g1)
        g2 == Emit(BumpLabel(g1), <<Ins1("je", false_label)>>)
        g3 == _generate_exp(exp.true_exp, c, g2)
        end_label == _generate_label(".Lend", g3)
        g4 == Emit(BumpLabel(g3), <<Ins1("jmp", end_label), LabelLine(false_label)>>)
        g5 == _generate_exp(exp.false_exp, c, g4)
    IN  Emit(g5, <<LabelLine(end_label)>>)

_generate_exp(exp, c, g) ==
    IF g.err # "" THEN g
    ELSE CASE exp.t = "UnaryOpExp" -> _generate_unary_op_exp(exp, c, g)
           [] exp.t = "BinaryOpExp" -> _generate_binary_op_exp(exp, c, g)
           [] exp.t = "ConstantExp" -> _generate_constant_exp(exp, g)
           [] exp.t = "AssignExp" -> _generate_assign_exp(exp, c, g)
           [] exp.t = "VarExp" -> _generate_var_exp(exp, c, g)
           [] exp.t = "CommaExp" -> _generate_comma_exp(exp, c, g)
           [] exp.t = "PostfixExp" -> _generate_postfix_exp(exp, c, g)
           [] exp.t = "ConditionalExp" -> _generate_conditional_exp(exp, c, g)

\* The lines of an epilogue: "movq %rbp, %rsp; popq %rbp; ret".
Epilogue ==
    <<Line("movq", Reg("rbp"), Reg("rsp")), Ins1("popq", Reg("rbp")), Ins0("ret")>>


-----------------------------------------------------------------------------
(* The x86-64 machine that runs the emitted function.  Words are           *)
(* two's-complement integers of WordBits bits, kept as signed values.      *)

RECURSIVE Pow2(_)
Pow2(n) == IF n = 0 THEN 1 ELSE 2 * Pow2(n - 1)

Modulus == Pow2(WordBits)
Unsigned(x) == x % Modulus
ToSigned(u) == IF 2 * u >= Modulus THEN u - Modulus ELSE u
Wrap(x) == ToSigned(Unsigned(x))

Abs(x) == IF x < 0 THEN 0 - x ELSE x
\* Division truncating toward zero, and its remainder (idiv).
TruncDiv(a, b) ==
    IF (a >= 0) = (b > 0) THEN Abs(a) \div Abs(b) ELSE 0 - (Abs(a) \div Abs(b))
TruncRem(a, b) == a - b * TruncDiv(a, b)

RECURSIVE BitwiseU(_, _, _)
BitwiseU(op, a, b) ==
    IF a = 0 /\ b = 0 THEN 0
    ELSE LET x == a % 2
             y == b % 2
             bit == CASE op = "and" -> IF x = 1 /\ y = 1 THEN 1 ELSE 0
                      [] op = "or" -> IF x = 1 \/ y = 1 THEN 1 ELSE 0
                      [] op = "xor" -> IF x # y THEN 1 ELSE 0
         IN  bit + 2 * BitwiseU(op, a \div 2, b \div 2)
Bitwise(op, a, b) == ToSigned(BitwiseU(op, Unsigned(a), Unsigned(b)))

RECURSIVE MulU(_, _)
MulU(a, b) ==
    IF b = 0 THEN 0
    ELSE ((IF b % 2 = 1 THEN a ELSE 0) + MulU((2 * a) % Modulus, b \div 2)) % Modulus
Mul(a, b) == ToSigned(MulU(Unsigned(a), Unsigned(b)))

RECURSIVE ShlU(_, _)
ShlU(u, count) == IF count = 0 THEN u ELSE ShlU((2 * u) % Modulus, count - 1)
\* The count of a shift by %cl: the low byte of %rcx, masked to the word width.
ShiftCount(rcx) == (Unsigned(rcx) % 256) % WordBits
Sal(x, rcx) == ToSigned(ShlU(Unsigned(x), ShiftCount(rcx)))
Sar(x, rcx) == x \div Pow2(ShiftCount(rcx))

\* The process is entered by a call: the return address is on top of the stack.
InitialRsp == 8 * 64
InitialRbp == InitialRsp + 16
ReturnAddress == 0 - 8
\* What a load from a slot nobody wrote may yield.
Garbage == {0, 1}

InitialCpu ==
    [rax |-> 0, rdi |-> 0, rcx |-> 0, rdx |-> 0, rsp |-> InitialRsp,
     rbp |-> InitialRbp, zf |-> FALSE, lt |-> FALSE, pc |-> 0]
InitialMem == [a \in {InitialRsp} |-> ReturnAddress]

\* The index in the text of the line that defines label l.
LabelIndex(text, l) == CHOOSE i \in 1..Len(text) : text[i] = LabelLine(l)

Load(m, addr, g) == IF addr \in DOMAIN m.mem THEN m.mem[addr] ELSE g
Store(m, addr, v) ==
    [m EXCEPT !.mem = [a \in DOMAIN m.mem \cup {addr} |->
                          IF a = addr THEN v ELSE m.mem[a]]]

\* The value of a source operand.
Val(m, o, g) ==
    CASE o.k = "imm" -> Wrap(o.n)
      [] o.k = "reg" -> m.cpu[o.r]
      [] o.k = "mem" -> Load(m, m.cpu.rbp + o.n, g)

\* Writing v to a destination operand.
SetReg(m, r, v) == [m EXCEPT !.cpu[r] = v]
Write(m, o, v) ==
    CASE o.k = "reg" -> SetReg(m, o.r, v)
      [] o.k = "mem" -> Store(m, m.cpu.rbp + o.n, v)

\* Flags after an arithmetic result: ZF, and SF # OF (signed "less").
SetFlags(m, exact) ==
    [m EXCEPT !.cpu.zf = (Wrap(exact) = 0), !.cpu.lt = (exact < 0)]

Cond(m, cc) ==
    CASE cc = "e" -> m.cpu.zf
      [] cc = "ne" -> ~m.cpu.zf
      [] cc = "l" -> m.cpu.lt
      [] cc = "le" -> m.cpu.lt \/ m.cpu.zf
      [] cc = "g" -> ~m.cpu.lt /\ ~m.cpu.zf
      [] cc = "ge" -> ~m.cpu.lt

SetccOf == [sete |-> "e", setne |-> "ne", setl |-> "l", setle |-> "le",
            setg |-> "g", setge |-> "ge"]

Advance(m) == [m EXCEPT !.cpu.pc = @ + 1]
JumpTo(m, text, l) == [m EXCEPT !.cpu.pc = LabelIndex(text, l)]

\* One instruction: m = [cpu, mem, proc], i the line at m.cpu.pc, g the
\* garbage an uninitialised load would see.
Exec(m, text, i, g) ==
    CASE i.op \in {".globl", "label:"} -> Advance(m)
      [] i.op = "movq" -> Advance(Write(m, i.dst, Val(m, i.src, g)))
      [] i.op = "pushq" ->
            LET m1 == SetReg(m, "rsp", m.cpu.rsp - 8)
            IN  Advance(Store(m1, m1.cpu.rsp, Val(m, i.dst, g)))
      [] i.op = "popq" ->
            LET v == Load(m, m.cpu.rsp, g)
                m1 == Write(m, i.dst, v)
            IN  Advance(SetReg(m1, "rsp", m.cpu.rsp + 8))
      [] i.op = "ret" ->
            LET addr == Load(m, m.cpu.rsp, g)
                m1 == SetReg(m, "rsp", m.cpu.rsp + 8)
            IN  IF addr = ReturnAddress
                THEN [m1 EXCEPT !.proc = "exited"]
                ELSE [m1 EXCEPT !.proc = "SIGSEGV"]
      [] i.op = "addq" ->
            LET exact == Val(m, i.dst, g) + Val(m, i.src, g)
            IN  Advance(SetFlags(Write(m, i.dst, Wrap(exact)), exact))
      [] i.op = "subq" ->
            LET exact == Val(m, i.dst, g) - Val(m, i.src, g)
            IN  Advance(SetFlags(Write(m, i.dst, Wrap(exact)), exact))
      [] i.op = "cmpq" ->
            Advance(SetFlags(m, Val(m, i.dst, g) - Val(m, i.src, g)))
      [] i.op = "imulq" ->
            Advance(Write(m, i.dst, Mul(Val(m, i.dst, g), Val(m, i.src, g))))
      [] i.op \in {"andq", "orq", "xorq"} ->
            LET op == CASE i.op = "andq" -> "and" [] i.op = "orq" -> "or"
                        [] i.op = "xorq" -> "xor"
                v == Bitwise(op, Val(m, i.dst, g), Val(m, i.src, g))
            IN  Advance(SetFlags(Write(m, i.dst, v), v))
      [] i.op = "neg" ->
            LET exact == 0 - Val(m, i.dst, g)
            IN  Advance(SetFlags(Write(m, i.dst, Wrap(exact)), exact))
      [] i.op = "not" -> Advance(Write(m, i.dst, 0 - Val(m, i.dst, g) - 1))
      [] i.op = "xchg" ->
            LET a == Val(m, i.src, g)
                b == Val(m, i.dst, g)
            IN  Advance(Write(Write(m, i.src, b), i.dst, a))
      [] i.op = "cqto" ->
            Advance(SetReg(m, "rdx", IF m.cpu.rax < 0 THEN 0 - 1 ELSE 0))
      [] i.op = "idivq" ->
            LET dividend == m.cpu.rdx * Modulus + Unsigned(m.cpu.rax)
                divisor == Val(m, i.dst, g)
            IN  IF divisor = 0 \/ Wrap(TruncDiv(dividend, divisor))
                                      # TruncDiv(dividend, divisor)
                THEN [m EXCEPT !.proc = "SIGFPE"]
                ELSE Advance(SetReg(SetReg(m, "rax", TruncDiv(dividend, divisor)),
                                    "rdx", TruncRem(dividend, divisor)))
      [] i.op \in {"salq", "sarq"} ->
            LET x == Val(m, i.dst, g)
                v == IF i.op = "salq" THEN Sal(x, m.cpu.rcx) ELSE Sar(x, m.cpu.rcx)
            IN  Advance(Write(m, i.dst, v))
      [] i.op \in DOMAIN SetccOf ->
            LET u == Unsigned(m.cpu.rax)
                b == IF Cond(m, SetccOf[i.op]) THEN 1 ELSE 0
            IN  Advance(SetReg(m, "rax", ToSigned(u - (u % 256) + b)))
      [] i.op = "movzbq" -> Advance(SetReg(m, "rax", Unsigned(m.cpu.rax) % 256))
      [] i.op = "jmp" -> JumpTo(m, text, i.dst)
      [] i.op = "je" -> IF Cond(m, "e") THEN JumpTo(m, text, i.dst) ELSE Advance(m)
      [] i.op = "jne" -> IF Cond(m, "ne") THEN JumpTo(m, text, i.dst) ELSE Advance(m)


-----------------------------------------------------------------------------
(* The programs handed to generate().                                      *)

Names == {"a", "b"}

Neg(exp) == UnaryOpExp("Negation", exp)
\* Constants and negated constants: the values -MaxConst..MaxConst.
Atoms ==
    {ConstantExp(n) : n \in 0..MaxConst} \cup {Neg(ConstantExp(n)) : n \in 1..MaxConst}

Declare(name, exp) == DeclareStatement(name, Initializer(exp))
Assign(name, exp) == ExpStatement(AssignExp(name, "Simple", exp))

\* return l op r;
BinaryPrograms ==
    {<<ReturnStatement(BinaryOpExp(op, l, r))>> :
        op \in BinaryOpKind, l \in Atoms, r \in Atoms}

\* int a = 0; return l && (a = r);   (and ||)
LogicalPrograms ==
    {<<Declare("a", ConstantExp(0)),
       ReturnStatement(BinaryOpExp(op, l, AssignExp("a", "Simple", r)))>> :
        op \in {"LogicalAnd", "LogicalOr"}, l \in Atoms, r \in Atoms}

\* int a = v; return a op= e;
AssignPrograms ==
    {<<Declare("a", v), ReturnStatement(AssignExp("a", kind, e))>> :
        kind \in AssignKind, v \in Atoms, e \in Atoms}

\* int a = 5; a += 3; a <<= 1; return a;
CompoundChain ==
    {<<Declare("a", ConstantExp(5)),
       ExpStatement(AssignExp("a", "Add", ConstantExp(3))),
       ExpStatement(AssignExp("a", "BitwiseLeftShift", ConstantExp(1))),
       ReturnStatement(VarExp("a"))>>}

\* int a = v; return a++;   return ++a;   (and --)
IncDecPrograms ==
    {<<Declare("a", v), ReturnStatement(PostfixExp(VarExp("a"), op))>> :
        v \in Atoms, op \in PostfixOpKind}
    \cup {<<Declare("a", v), ReturnStatement(UnaryOpExp(op, VarExp("a")))>> :
            v \in Atoms, op \in {"Increment", "Decrement"}}

\* Scopes: an outer declaration, then a block, an if or a declaration, then a
\* reference.  Outer declarations initialise to 1, inner ones to 2, stores
\* write 3.
Flag == {ConstantExp(0), ConstantExp(1)}
InnerSimple ==
    {Declare(n, ConstantExp(2)) : n \in Names}
    \cup {DeclareStatement("b", None), Assign("a", ConstantExp(3))}
InnerStatements ==
    InnerSimple
    \cup {IfStatement(c, Declare("b", ConstantExp(2)), None) : c \in Flag}
    \cup {IfStatement(c, Declare("b", ConstantExp(2)), Assign("a", ConstantExp(3))) :
            c \in Flag}
    \cup {IfStatement(c, BlockStatement(<<Declare("b", ConstantExp(2))>>), None) :
            c \in Flag}
    \cup {BlockStatement(<<Declare("a", ConstantExp(2))>>),
          BlockStatement(<<Declare("b", ConstantExp(2)),
                           ReturnStatement(VarExp("b"))>>)}
Bodies ==
    {<<>>} \cup {<<s>> : s \in InnerStatements}
    \cup {<<s1, s2>> : s1 \in InnerStatements, s2 \in InnerStatements}
Middle ==
    {BlockStatement(body) : body \in Bodies}
    \cup {Declare(n, ConstantExp(2)) : n \in Names}
    \cup {IfStatement(c, Declare("b", ConstantExp(2)), None) : c \in Flag}
References ==
    {ReturnStatement(VarExp(n)) : n \in Names}
    \cup {Assign("b", ConstantExp(3)),
          ExpStatement(AssignExp("b", "Add", ConstantExp(3))),
          ExpStatement(UnaryOpExp("Increment", VarExp("b"))),
          ExpStatement(PostfixExp(VarExp("b"), "Decrement"))}
ScopePrograms ==
    {<<Declare("a", ConstantExp(1)), m, r>> : m \in Middle, r \in References}

\* Name resolution: a reference before the declaration, in the declaration's
\* own initializer, and references inside nested blocks.
Block1(s1) == BlockStatement(<<s1>>)
Block2(s1, s2) == BlockStatement(<<s1, s2>>)
ResolutionPrograms ==
    {<<ReturnStatement(VarExp(n)), Declare(n, ConstantExp(1))>> : n \in Names}
    \cup {<<Declare("a", VarExp("a"))>>,
          <<Declare("a", ConstantExp(1)), Declare("b", VarExp("a")),
            ReturnStatement(VarExp("b"))>>}
    \cup {<<Declare("a", ConstantExp(1)),
            Block2(Declare(n, ConstantExp(2)), ReturnStatement(VarExp("a")))>> :
            n \in Names}
    \cup {<<Declare("a", ConstantExp(1)),
            Block2(Declare(n, ConstantExp(2)),
                   Block2(Declare(m, ConstantExp(3)), ReturnStatement(VarExp(r))))>> :
            n \in Names, m \in Names, r \in Names}
    \cup {<<Declare("a", ConstantExp(1)),
            Block2(Block1(Declare(n, ConstantExp(2))), ReturnStatement(VarExp(r)))>> :
            n \in Names, r \in Names}

\* Labels: &&, ||, ?: and if nested in one another.
Truth == {ConstantExp(0), ConstantExp(1)}
Branching ==
    {BinaryOpExp(op, l, r) : op \in {"LogicalAnd", "LogicalOr"}, l \in Truth,
                             r \in Truth}
    \cup {ConditionalExp(c, ConstantExp(2), ConstantExp(3)) : c \in Truth}
Nested ==
    {BinaryOpExp(op, l, r) : op \in {"LogicalAnd", "LogicalOr"}, l \in Branching,
                             r \in {ConditionalExp(ConstantExp(1), ConstantExp(0),
                                                    ConstantExp(1))}}
    \cup {ConditionalExp(c, BinaryOpExp("LogicalOr", ConstantExp(0), ConstantExp(1)),
                         ConditionalExp(ConstantExp(0), ConstantExp(2), ConstantExp(3))) :
            c \in Branching}
LabelPrograms ==
    {<<ReturnStatement(e)>> : e \in Nested}
    \cup {<<IfStatement(c, IfStatement(d, ReturnStatement(ConstantExp(1)),
                                       ReturnStatement(ConstantExp(2))),
                        ExpStatement(d)),
            IfStatement(d, ReturnStatement(c), None)>> :
            c \in Truth, d \in Branching}

\* Returns: none, several, in the branches of an if, inside blocks with
\* locals; each program with the value C gives main.
Return(n) == ReturnStatement(ConstantExp(n))
ReturnCases ==
    {[program |-> <<>>, value |-> 0],
     [program |-> <<Return(2)>>, value |-> 2],
     [program |-> <<Declare("a", ConstantExp(1))>>, value |-> 0],
     [program |-> <<ExpStatement(ConstantExp(1))>>, value |-> 0],
     [program |-> <<Return(1), Return(2)>>, value |-> 1]}
    \cup {[program |-> <<IfStatement(ConstantExp(c), Return(1), None), Return(2)>>,
           value |-> IF c # 0 THEN 1 ELSE 2] : c \in 0..1}
    \cup {[program |-> <<IfStatement(ConstantExp(c), Return(1), Return(2)), Return(3)>>,
           value |-> IF c # 0 THEN 1 ELSE 2] : c \in 0..1}
    \cup {[program |-> <<IfStatement(ConstantExp(c), Return(1), None)>>,
           value |-> IF c # 0 THEN 1 ELSE 0] : c \in 0..1}
    \cup {[program |->
              <<Declare("a", ConstantExp(1)),
                Block2(Declare("b", ConstantExp(2)),
                       Block2(Declare("a", ConstantExp(3)),
                              IfStatement(ConstantExp(c), ReturnStatement(VarExp("b")),
                                          None))),
                ReturnStatement(VarExp("a"))>>,
           value |-> IF c # 0 THEN 2 ELSE 1] : c \in 0..1}
    \cup {[program |->
              <<IfStatement(ConstantExp(c),
                            Block2(Declare("a", ConstantExp(5)),
                                   ReturnStatement(VarExp("a"))),
                            None)>>,
           value |-> IF c # 0 THEN 5 ELSE 0] : c \in 0..1}
    \cup {[program |->
              <<Block1(IfStatement(ConstantExp(c), Declare("b", ConstantExp(2)), None)),
                ReturnStatement(BinaryOpExp("Addition", ConstantExp(1),
                                            ConstantExp(2)))>>,
           value |-> 3] : c \in 0..1}
ReturnPrograms == {case.program : case \in ReturnCases}

\* Binary operators whose operands jump (&&, ||, ?:) and whose right
\* operand is a binary operator again.
Minus(l, r) == BinaryOpExp("Subtraction", l, r)
BalancePrograms ==
    {<<ReturnStatement(Minus(l, r))>> :
        l \in Branching,
        r \in {Minus(ConstantExp(2), ConditionalExp(c, ConstantExp(2), ConstantExp(3))) :
                 c \in Truth}
              \cup {ConditionalExp(c, Minus(ConstantExp(3), ConstantExp(1)),
                                    BinaryOpExp("LogicalAnd", ConstantExp(1),
                                                Minus(ConstantExp(2), ConstantExp(1)))) :
                      c \in Truth}}

\* A Declare that is the direct branch of an if, and a Declare after it.
SlotPrograms ==
    {<<IfStatement(ConstantExp(c), Declare("a", ConstantExp(1)), None),
       Declare("b", ConstantExp(2)), ReturnStatement(VarExp("b"))>> : c \in 0..1}
    \cup {<<IfStatement(ConstantExp(c), Declare("a", ConstantExp(1)),
                        Declare("b", ConstantExp(2))),
            Declare("c", ConstantExp(3)), ReturnStatement(VarExp("c"))>> : c \in 0..1}

Programs ==
    BinaryPrograms \cup LogicalPrograms \cup AssignPrograms \cup CompoundChain
    \cup IncDecPrograms \cup ScopePrograms \cup ResolutionPrograms
    \cup LabelPrograms \cup ReturnPrograms \cup SlotPrograms \cup BalancePrograms

-----------------------------------------------------------------------------
(* The generator's steps.                                                  *)

StatementItem(statement) == [k |-> "statement", statement |-> statement]
StatementItems(statements) ==
    [i \in 1..Len(statements) |-> StatementItem(statements[i])]

Scopes == [scopes |-> _scopes, scope |-> _scope]
Sink == [label_counter |-> _label_counter, out |-> out, err |-> ""]

\* The current call of _generate_statement.
Current(t) ==
    /\ gen = "generating"
    /\ todo # <<>>
    /\ Head(todo).k = "statement"
    /\ Head(todo).statement.t = t

\* What a handler leaves behind: the sink, and the CompileError if it raised.
Leave(g, rest) ==
    /\ _label_counter' = g.label_counter
    /\ out' = g.out
    /\ gen' = IF g.err # "" THEN "CompileError" ELSE "generating"
    /\ todo' = IF g.err # "" THEN todo ELSE rest

Prologue ==
    <<Line(".globl", NoOperand, Sym("main")), LabelLine(Sym("main")),
      Ins1("pushq", Reg("rbp")), Line("movq", Reg("rsp"), Reg("rbp"))>>

\* Compiler.generate, to the first statement of _generate_function.
generate(program) ==
    /\ gen = "new"
    /\ ast' = program
    /\ out' = out \o Prologue
    /\ todo' = StatementItems(program)
    /\ gen' = "generating"
    /\ UNCHANGED <<_label_counter, _scopes, _scope, _stack_index, blocks, slots, runVars, otherVars>>

\* _generate_function after its loop over the statements.
_generate_function ==
    /\ gen = "generating"
    /\ todo = <<>>
    /\ out' = out \o <<Line("movq", Imm(0), Reg("rax"))>> \o Epilogue
    /\ gen' = "done"
    /\ UNCHANGED <<ast, _label_counter, _scopes, _scope, _stack_index, todo, blocks, slots,
                   runVars, otherVars>>

_generate_return_statement ==
    /\ Current("ReturnStatement")
    /\ LET statement == Head(todo).statement
           g == _generate_exp(statement.exp, Scopes, Sink)
       IN  Leave(Emit(g, Epilogue), Tail(todo))
    /\ UNCHANGED <<ast, _scopes, _scope, _stack_index, blocks, slots, runVars, otherVars>>

_generate_exp_statement ==
    /\ Current("ExpStatement")
    /\ Leave(_generate_exp(Head(todo).statement.exp, Scopes, Sink), Tail(todo))
    /\ UNCHANGED <<ast, _scopes, _scope, _stack_index, blocks, slots, runVars, otherVars>>

\* Variant: a name any enclosing table holds counts as declared.
AlreadyDeclaredAnywhere(statement, scopes, scope) ==
    _get_var(statement.identifier, scopes, scope).ok

\* Whether _generate_declare_statement raises "already declared".
AlreadyDeclared(statement, scopes, scope) ==
    statement.identifier \in DOMAIN innermost_vars(scopes, scope)

_generate_declare_statement ==
    /\ Current("DeclareStatement")
    /\ LET statement == Head(todo).statement
           g == IF AlreadyDeclared(statement, _scopes, _scope) THEN Raise(Sink)
                ELSE IF statement.initializer # None
                THEN _generate_exp(statement.initializer.exp, Scopes, Sink)
                ELSE Emit(Sink, <<Line("movq", Imm(0), Reg("rax"))>>)
       IN  /\ Leave(Emit(g, <<Ins1("pushq", Reg("rax"))>>), Tail(todo))
           /\ IF g.err # ""
              THEN UNCHANGED <<_scopes, _stack_index>>
              ELSE /\ _scopes' = _put_var(_scopes, _scope, statement.identifier,
                                         _stack_index)
                   /\ _stack_index' = _stack_index - _SIZEOF_INT
    /\ slots' = IF gen' = "CompileError" THEN slots
                ELSE slots \cup {[line |-> Len(out'), offset |-> _stack_index]}
    /\ UNCHANGED <<ast, _scope, blocks, runVars, otherVars>>

\* _generate_if_statement, to its call for the then-branch.
_generate_if_statement ==
    /\ Current("IfStatement")
    /\ LET statement == Head(todo).statement
           g1 == Emit(_generate_exp(statement.condition, Scopes, Sink), <<CmpZero>>)
           false_label == _generate_label(".Lfalse", g1)
           g2 == Emit(BumpLabel(g1), <<Ins1("je", false_label)>>)
       IN  Leave(g2, <<StatementItem(statement.then_statement),
                       [k |-> "else", false_label |-> false_label,
                        else_statement |-> statement.else_statement]>>
                     \o Tail(todo))
    /\ UNCHANGED <<ast, _scopes, _scope, _stack_index, blocks, slots, runVars, otherVars>>

\* _generate_if_statement, from the return of the then-branch to its call for
\* the else-branch, or to its end when there is none.
_generate_if_statement_else ==
    /\ gen = "generating"
    /\ todo # <<>>
    /\ Head(todo).k = "else"
    /\ LET item == Head(todo)
           end_label == _generate_label(".Lend", Sink)
           g == Emit(BumpLabel(Sink),
                     <<Ins1("jmp", end_label), LabelLine(item.false_label)>>)
       IN  IF item.else_statement # None
           THEN Leave(g, <<StatementItem(item.else_statement),
                           [k |-> "end", end_label |-> end_label]>> \o Tail(todo))
           ELSE Leave(Emit(g, <<LabelLine(end_label)>>), Tail(todo))
    /\ UNCHANGED <<ast, _scopes, _scope, _stack_index, blocks, slots, runVars, otherVars>>

\* _generate_if_statement, after the else-branch.
_generate_if_statement_end ==
    /\ gen = "generating"
    /\ todo # <<>>
    /\ Head(todo).k = "end"
    /\ Leave(Emit(Sink, <<LabelLine(Head(todo).end_label)>>), Tail(todo))
    /\ UNCHANGED <<ast, _scopes, _scope, _stack_index, blocks, slots, runVars, otherVars>>

\* _generate_block_statement, to its first child: _push_scope.
_generate_block_statement ==
    /\ Current("BlockStatement")
    /\ _scopes' = Append(_scopes, EmptyTable)
    /\ _scope' = _scope + 1
    /\ todo' = StatementItems(Head(todo).statement.statements)
                 \o <<[k |-> "pop_scope", first |-> Len(out) + 1,
                       stack_index |-> _stack_index]>> \o Tail(todo)
    /\ UNCHANGED <<ast, _label_counter, _stack_index, out, gen, blocks, slots, runVars, otherVars>>

bytes_to_dealloc_one(table) == _SIZEOF_INT
\* _pop_scope: len(self._vars()) * _SIZEOF_INT
bytes_to_dealloc(table) == Cardinality(DOMAIN table) * _SIZEOF_INT

\* _generate_block_statement, after its children: _pop_scope.
_pop_scope ==
    /\ gen = "generating"
    /\ todo # <<>>
    /\ Head(todo).k = "pop_scope"
    /\ LET bytes == bytes_to_dealloc(innermost_vars(_scopes, _scope))
       IN  /\ out' = Append(out, Line("addq", Imm(bytes), Reg("rsp")))
           /\ _stack_index' = _stack_index + bytes
    /\ _scopes' = SubSeq(_scopes, 1, Len(_scopes) - 1)
    /\ _scope' = _scope - 1
    /\ todo' = Tail(todo)
    /\ blocks' = blocks \cup {[first |-> Head(todo).first, last |-> Len(out) + 1]}
    /\ UNCHANGED <<ast, _label_counter, gen, slots, runVars, otherVars>>

-----------------------------------------------------------------------------
(* The process that runs the assembled function.                           *)

Run ==
    /\ gen = "done"
    /\ proc = "none"
    /\ proc' = "running"
    /\ cpu' = [InitialCpu EXCEPT !.pc = LabelIndex(out, Sym("main"))]
    /\ mem' = InitialMem
    /\ trace' = <<>>
    /\ UNCHANGED <<genVars, otherVars>>

\* The addresses the line at pc loads from.
Loads(i) ==
    (IF i.op \in {"popq", "ret"} THEN {cpu.rsp} ELSE {})
    \cup {cpu.rbp + o.n : o \in {x \in {i.src, i.dst} : x.k = "mem"}}

Step ==
    /\ proc = "running"
    /\ \E g \in IF Loads(out[cpu.pc]) \subseteq DOMAIN mem THEN {0} ELSE Garbage :
          LET m == Exec([cpu |-> cpu, mem |-> mem, proc |-> proc], out,
                        out[cpu.pc], g)
          IN  /\ cpu' = m.cpu
              /\ mem' = m.mem
              /\ proc' = m.proc
    /\ trace' = Append(trace, [pc |-> cpu.pc, rsp |-> cpu.rsp, rax |-> cpu.rax])
    /\ UNCHANGED <<genVars, otherVars>>

-----------------------------------------------------------------------------

\* No source read, no lexer, parser or driver at work.
NoFront ==
    /\ package = "dragonpy"
    /\ source = <<>>
    /\ lexer = [pos |-> 0, line |-> 1, col |-> 1, token_start_ofs |-> 0,
                token_start |-> [line |-> 1, col |-> 1]]   \* Lexer.__init__
    /\ tokens = [returned |-> <<>>, starts |-> <<>>, ended |-> ""]
    /\ parser = [buffer |-> <<>>, result |-> "", program |-> <<>>]
    /\ driver = [at |-> "none", output |-> "absent"]

\* Compiler.__init__, and no process yet.
NewCompiler ==
    /\ ast = <<>>
    /\ _label_counter = 0
    /\ _scopes = <<EmptyTable>>
    /\ _scope = 0
    /\ _stack_index = 0 - _SIZEOF_INT
    /\ out = <<>>
    /\ todo = <<>>
    /\ gen = "new"
    /\ cpu = InitialCpu
    /\ mem = InitialMem
    /\ proc = "none"
    /\ trace = <<>>
    /\ blocks = {}
    /\ slots = {}
    /\ calls = <<>>

Init == NewCompiler /\ NoFront

Next ==
    \/ \E program \in Programs : generate(program)
    \/ _generate_return_statement
    \/ _generate_exp_statement
    \/ _generate_declare_statement
    \/ _generate_if_statement
    \/ _generate_if_statement_else
    \/ _generate_if_statement_end
    \/ _generate_block_statement
    \/ _pop_scope
    \/ _generate_function
    \/ Run
    \/ Step

Spec == Init /\ [][Next]_vars

-----------------------------------------------------------------------------
(* What the claims speak of.                                               *)

IsAtom(exp) ==
    \/ exp.t = "ConstantExp"
    \/ exp.t = "UnaryOpExp" /\ exp.op = "Negation" /\ exp.exp.t = "ConstantExp"
AtomValue(exp) == IF exp.t = "ConstantExp" THEN exp.value ELSE 0 - exp.exp.value

Bool(p) == IF p THEN 1 ELSE 0

\* The value C gives to l op r (words of WordBits bits), where it defines one.
CDefined(op, l, r) ==
    CASE op \in {"Division", "Modulo"} -> r # 0 /\ Wrap(TruncDiv(l, r)) = TruncDiv(l, r)
      [] op \in {"BitwiseLeftShift", "BitwiseRightShift"} -> r >= 0 /\ r < WordBits
      [] OTHER -> TRUE
CBinary(op, l, r) ==
    CASE op = "Addition" -> Wrap(l + r)
      [] op = "Subtraction" -> Wrap(l - r)
      [] op = "Multiplication" -> Mul(l, r)
      [] op = "Division" -> TruncDiv(l, r)
      [] op = "Modulo" -> TruncRem(l, r)
      [] op = "LessThan" -> Bool(l < r)
      [] op = "LessThanOrEqual" -> Bool(l <= r)
      [] op = "GreaterThan" -> Bool(l > r)
      [] op = "GreaterThanOrEqual" -> Bool(l >= r)
      [] op = "Equal" -> Bool(l = r)
      [] op = "NotEqual" -> Bool(l # r)
      [] op = "BitwiseAnd" -> Bitwise("and", l, r)
      [] op = "BitwiseOr" -> Bitwise("or", l, r)
      [] op = "BitwiseXor" -> Bitwise("xor", l, r)
      [] op = "BitwiseLeftShift" -> ToSigned(ShlU(Unsigned(l), r))
      [] op = "BitwiseRightShift" -> l \div Pow2(r)

\* The binary operator a compound assignment applies.
KindOp ==
    [Add |-> "Addition", Subtract |-> "Subtraction", Multiply |-> "Multiplication",
     Divide |-> "Division", Modulo |-> "Modulo",
     BitwiseLeftShift |-> "BitwiseLeftShift",
     BitwiseRightShift |-> "BitwiseRightShift", BitwiseAnd |-> "BitwiseAnd",
     BitwiseOr |-> "BitwiseOr", BitwiseXor |-> "BitwiseXor"]

\* The program ends in a top-level "return exp;" and the process is at the
\* first line of that return's epilogue: the code of exp has just run.
LastStatement == ast[Len(ast)]
Returned == LastStatement.exp
AtReturnOfLast ==
    /\ proc = "running"
    /\ ast # <<>>
    /\ LastStatement.t = "ReturnStatement"
    /\ cpu.pc = Len(out) - 6

\* The number of lines the code of exp takes, and the lines (indices in out)
\* of the code of the returned expression's parts.
ExpLen(exp) ==
    Len(_generate_exp(exp, Scopes, [label_counter |-> 0, out |-> <<>>, err |-> ""]).out)
BeforeReturned == Len(out) - 7 - ExpLen(Returned)
TimesExecuted(line) == Cardinality({j \in 1..Len(trace) : trace[j].pc = line})

\* The program starts with "int a = <atom>;": the value, and the slot of a.
FirstDeclaresAtom ==
    /\ ast # <<>>
    /\ ast[1].t = "DeclareStatement"
    /\ ast[1].initializer # None
    /\ IsAtom(ast[1].initializer.exp)
FirstValue == AtomValue(ast[1].initializer.exp)
FirstSlot == mem[cpu.rbp - _SIZEOF_INT]

-----------------------------------------------------------------------------
(* C1: for Sub, Div, Mod, LT, LE, GT, GE, Eq, NE the emitted sequence      *)
(* (left, pushq %rax, right, popq %rdi, combine) leaves left op right in   *)
(* %rax, the left operand first, for every operand pair with a non-zero    *)
(* divisor.                                                                *)
OrderedOps ==
    {"Subtraction", "Division", "Modulo", "LessThan", "LessThanOrEqual",
     "GreaterThan", "GreaterThanOrEqual", "Equal", "NotEqual"}
ReturnsBinaryOfAtoms(ops) ==
    /\ AtReturnOfLast
    /\ Returned.t = "BinaryOpExp"
    /\ Returned.op \in ops
    /\ IsAtom(Returned.left)
    /\ IsAtom(Returned.right)
C1_LeftOpRight ==
    ReturnsBinaryOfAtoms(OrderedOps)
       /\ CDefined(Returned.op, AtomValue(Returned.left), AtomValue(Returned.right))
    => cpu.rax = CBinary(Returned.op, AtomValue(Returned.left),
                         AtomValue(Returned.right))
\* return -3 / 2; has run and left -1.
C1_Witness ==
    /\ ReturnsBinaryOfAtoms({"Division"})
    /\ AtomValue(Returned.left) = 0 - 3
    /\ AtomValue(Returned.right) = 2
    /\ cpu.rax = 0 - 1

(* C2: for Shl and Shr the emitted sequence leaves in %rax the left        *)
(* operand shifted by the right operand.                                   *)
C2_LeftShiftedByRight ==
    ReturnsBinaryOfAtoms({"BitwiseLeftShift", "BitwiseRightShift"})
       /\ CDefined(Returned.op, AtomValue(Returned.left), AtomValue(Returned.right))
    => cpu.rax = CBinary(Returned.op, AtomValue(Returned.left),
                         AtomValue(Returned.right))

(* C3: in the code of a && b with a = 0, and of a || b with a # 0, no line *)
(* of b runs and %rax ends 0, respectively 1; otherwise every line of b    *)
(* runs exactly once and %rax ends 1 if b # 0, else 0.                     *)
ReturnsLogical ==
    /\ AtReturnOfLast
    /\ Returned.t = "BinaryOpExp"
    /\ Returned.op \in {"LogicalAnd", "LogicalOr"}
    /\ IsAtom(Returned.left)
RightValue ==
    IF Returned.right.t = "AssignExp" THEN AtomValue(Returned.right.right)
    ELSE AtomValue(Returned.right)
RightLines ==
    (BeforeReturned + ExpLen(Returned.left) + 3)
        .. (BeforeReturned + ExpLen(Returned.left) + 2 + ExpLen(Returned.right))
Skips ==
    \/ Returned.op = "LogicalAnd" /\ AtomValue(Returned.left) = 0
    \/ Returned.op = "LogicalOr" /\ AtomValue(Returned.left) # 0
C3_ShortCircuit ==
    ReturnsLogical =>
        IF Skips
        THEN /\ \A line \in RightLines : TimesExecuted(line) = 0
             /\ cpu.rax = Bool(Returned.op = "LogicalOr")
             /\ Returned.right.t = "AssignExp" => FirstSlot = FirstValue
        ELSE /\ \A line \in RightLines : TimesExecuted(line) = 1
             /\ cpu.rax = Bool(RightValue # 0)
             /\ Returned.right.t = "AssignExp" => FirstSlot = RightValue
\* int a = 0; return 1 || (a = 2); has run: %rax is 1 and a is still 0.
C3_Witness ==
    /\ ReturnsLogical
    /\ Returned.op = "LogicalOr"
    /\ AtomValue(Returned.left) = 1
    /\ Returned.right.t = "AssignExp"
    /\ RightValue = 2
    /\ RightLines # {}
    /\ FirstSlot = 0
    /\ cpu.rax = 1

(* C4: after the code of a postfix v++ / v-- the slot of v holds old v + 1 *)
(* / old v - 1 and %rax holds the pre-update value, old v.                 *)
ReturnsPostfix ==
    /\ AtReturnOfLast
    /\ Returned.t = "PostfixExp"
    /\ FirstDeclaresAtom
C4_PostfixYieldsOldValue ==
    ReturnsPostfix =>
        /\ FirstSlot = Wrap(FirstValue + (IF Returned.op = "Increment" THEN 1 ELSE 0 - 1))
        /\ cpu.rax = FirstValue

(* C5: after the code of an Assign of any kind %rax holds the value just   *)
(* stored into the target variable.                                        *)
ReturnsAssign ==
    /\ AtReturnOfLast
    /\ Returned.t = "AssignExp"
    /\ FirstDeclaresAtom
    /\ IsAtom(Returned.right)
C5_AssignLeavesStoredValue == ReturnsAssign => cpu.rax = FirstSlot

(* C6: after the code of a op= e the slot of a holds (old a) op (value of  *)
(* e), the variable as left operand, and e has been evaluated exactly      *)
(* once; a = 5; a += 3; a <<= 1 leaves a = 16.                            *)
C6_CompoundStoresLeftOpRight ==
    /\ ReturnsAssign /\ Returned.kind # "Simple"
          /\ CDefined(KindOp[Returned.kind], FirstValue, AtomValue(Returned.right))
       => /\ FirstSlot = CBinary(KindOp[Returned.kind], FirstValue,
                                 AtomValue(Returned.right))
          /\ \A line \in (BeforeReturned + 1)
                           .. (BeforeReturned + ExpLen(Returned.right)) :
                TimesExecuted(line) = 1
    /\ AtReturnOfLast /\ ast \in CompoundChain
       => cpu.rax = 16 /\ FirstSlot = 16
\* int a = -3; return a -= 2; has run: a is -5.
C6_Witness ==
    /\ ReturnsAssign
    /\ Returned.kind = "Subtract"
    /\ FirstValue = 0 - 3
    /\ AtomValue(Returned.right) = 2
    /\ FirstSlot = 0 - 5

-----------------------------------------------------------------------------
(* Scopes, read off the program text.                                      *)

\* The names an expression mentions.
RECURSIVE Mentioned(_)
Mentioned(exp) ==
    CASE exp.t = "ConstantExp" -> {}
      [] exp.t = "VarExp" -> {exp.name}
      [] exp.t \in {"UnaryOpExp", "PostfixExp"} -> Mentioned(exp.exp)
      [] exp.t \in {"BinaryOpExp", "CommaExp"} ->
            Mentioned(exp.left) \cup Mentioned(exp.right)
      [] exp.t = "AssignExp" -> {exp.left} \cup Mentioned(exp.right)
      [] exp.t = "ConditionalExp" ->
            Mentioned(exp.cond) \cup Mentioned(exp.true_exp)
                \cup Mentioned(exp.false_exp)

\* The names a statement declares, at any depth.
RECURSIVE AllDeclared(_)
AllDeclared(s) ==
    CASE s.t = "DeclareStatement" -> {s.identifier}
      [] s.t = "IfStatement" ->
            AllDeclared(s.then_statement)
                \cup (IF s.else_statement = None THEN {}
                      ELSE AllDeclared(s.else_statement))
      [] s.t = "BlockStatement" ->
            UNION {AllDeclared(s.statements[i]) : i \in 1..Len(s.statements)}
      [] OTHER -> {}

\* The names a statement declares in the scope that holds it (not in a Block
\* of its own), and those it declares inside Blocks.
RECURSIVE DirectNames(_)
DirectNames(s) ==
    CASE s.t = "DeclareStatement" -> {s.identifier}
      [] s.t = "IfStatement" ->
            DirectNames(s.then_statement)
                \cup (IF s.else_statement = None THEN {}
                      ELSE DirectNames(s.else_statement))
      [] OTHER -> {}
RECURSIVE BlockNames(_)
BlockNames(s) ==
    CASE s.t = "BlockStatement" -> AllDeclared(s)
      [] s.t = "IfStatement" ->
            BlockNames(s.then_statement)
                \cup (IF s.else_statement = None THEN {}
                      ELSE BlockNames(s.else_statement))
      [] OTHER -> {}

\* Whether statements[i..] hold a reference to a name of `ended` (declared in
\* a Block that has ended) that no declaration of `visible` (the enclosing
\* scopes, up to the reference) provides.
RECURSIVE RefersToEnded(_, _, _, _)
RefersToEnded(statements, i, visible, ended) ==
    IF i > Len(statements) THEN FALSE
    ELSE LET s == statements[i]
             stale == ended \ visible
             here ==
                CASE s.t \in {"ReturnStatement", "ExpStatement"} ->
                        Mentioned(s.exp) \cap stale # {}
                  [] s.t = "DeclareStatement" ->
                        s.initializer # None
                            /\ Mentioned(s.initializer.exp) \cap stale # {}
                  [] s.t = "IfStatement" ->
                        \/ Mentioned(s.condition) \cap stale # {}
                        \/ RefersToEnded(<<s.then_statement>>, 1, visible, ended)
                        \/ s.else_statement # None
                            /\ RefersToEnded(<<s.else_statement>>, 1,
                                   visible \cup DirectNames(s.then_statement),
                                   ended \cup BlockNames(s.then_statement))
                  [] s.t = "BlockStatement" ->
                        RefersToEnded(s.statements, 1, visible, ended)
         IN  here \/ RefersToEnded(statements, i + 1, visible \cup DirectNames(s),
                                   ended \cup BlockNames(s))

-----------------------------------------------------------------------------
(* C7: a name declared only inside a Block is invisible after the block:   *)
(* generation never gets past a later reference to it (Var read, Assign    *)
(* target, prefix or postfix increment/decrement) - it ends in the         *)
(* CompileError, never in "done".                                          *)
C7_BlockNamesInvisibleAfter ==
    RefersToEnded(ast, 1, {}, {}) => gen \in {"generating", "CompileError"}
\* int a = 1; { int b = 2; } b--;   raised at "b--".
C7_Witness ==
    /\ gen = "CompileError"
    /\ Len(ast) = 3
    /\ ast[2] = BlockStatement(<<Declare("b", ConstantExp(2))>>)
    /\ ast[3] = ExpStatement(PostfixExp(VarExp("b"), "Decrement"))
    /\ Head(todo).statement = ast[3]
    /\ _scope = 0

(* C8: a Declare in an inner block of a name an outer frame holds leaves   *)
(* every outer frame as it was and records a different offset; the stores  *)
(* to the inner variable leave the outer slot alone, and after the block   *)
(* the name resolves to the outer offset again:                            *)
(* int a = 1; { int a = 2; ... } return a; returns 1.                      *)
ShadowingDeclare ==
    /\ Current("DeclareStatement")
    /\ _scope > 0
    /\ _get_var(Head(todo).statement.identifier, _scopes, _scope - 1).ok
    /\ gen' = "generating"
DeclareKeepsOuter ==
    ShadowingDeclare =>
        LET name == Head(todo).statement.identifier
        IN  /\ \A i \in 1.._scope : _scopes'[i] = _scopes[i]
            /\ _scopes'[_scope + 1][name] # _get_var(name, _scopes, _scope - 1).offset
ShadowsFirst ==
    /\ Len(ast) = 3
    /\ ast[2].t = "BlockStatement"
    /\ ast[2].statements # <<>>
    /\ ast[2].statements[1] = Declare("a", ConstantExp(2))
    /\ ast[3] = ReturnStatement(VarExp("a"))
OuterRestored ==
    /\ gen = "done" /\ ShadowsFirst
       => _get_var("a", _scopes, _scope) = [ok |-> TRUE, offset |-> 0 - _SIZEOF_INT]
    /\ AtReturnOfLast /\ ShadowsFirst => cpu.rax = 1 /\ FirstSlot = 1
C8_ShadowingKeepsOuter == [][DeclareKeepsOuter]_vars /\ []OuterRestored
\* int a = 1; { int a = 2; a = 3; } return a;   is about to return 1.
C8_Witness ==
    /\ AtReturnOfLast
    /\ ShadowsFirst
    /\ ast[2].statements = <<Declare("a", ConstantExp(2)), Assign("a", ConstantExp(3))>>
    /\ mem[cpu.rbp - 2 * _SIZEOF_INT] = 3
    /\ cpu.rax = 1

(* C9: when the code of a Block runs to the block's end, %rsp is what it   *)
(* was before the block's first line, for every body and path.             *)
RspAfter(j) == IF j = Len(trace) THEN cpu.rsp ELSE trace[j + 1].rsp
RspBefore(b) ==
    trace[CHOOSE k \in 1..Len(trace) : trace[k].pc = b.first].rsp
C9_BlockRestoresRsp ==
    \A b \in blocks : \A j \in 1..Len(trace) :
        trace[j].pc = b.last => RspAfter(j) = RspBefore(b)

(* C10: a Declare of a name the innermost frame holds raises CompileError; *)
(* a Declare of a name only outer frames hold succeeds and adds the name   *)
(* to the innermost frame.                                                 *)
DeclareStep ==
    /\ Current("DeclareStatement")
    /\ \/ Head(todo).statement.initializer = None
       \/ IsAtom(Head(todo).statement.initializer.exp)
DeclareOutcome ==
    DeclareStep =>
        LET name == Head(todo).statement.identifier
        IN  IF name \in DOMAIN _scopes[_scope + 1]
            THEN gen' = "CompileError" /\ _scopes' = _scopes
            ELSE /\ gen' = "generating"
                 /\ name \in DOMAIN _scopes'[_scope + 1]
                 /\ _scopes'[_scope + 1][name] = _stack_index
C10_RedeclarationOnlyInnermost == [][DeclareOutcome]_vars
\* int a = 1; { int a = 2; int a = 2; }   the shadowing Declare has succeeded,
\* the second one in the block raised.
C10_Witness ==
    /\ gen = "CompileError"
    /\ _scope = 1
    /\ "a" \in DOMAIN _scopes[1]
    /\ "a" \in DOMAIN _scopes[2]
    /\ Head(todo).statement = Declare("a", ConstantExp(2))

-----------------------------------------------------------------------------
(* C11: name resolution is innermost-first.  The step that generates       *)
(* "return n;" emits the access to the offset the innermost frame holding  *)
(* n records, and raises CompileError, emitting nothing, when no frame     *)
(* holds n (never declared, declared later, or declared only in a block    *)
(* already popped); at run time the innermost declaration's value is read. *)
Holders(name) == {i \in 1..Len(_scopes) : name \in DOMAIN _scopes[i]}
Innermost(name) == CHOOSE i \in Holders(name) : \A j \in Holders(name) : j <= i
ResolveStep ==
    /\ Current("ReturnStatement")
    /\ Head(todo).statement.exp.t = "VarExp"
ResolveOutcome ==
    ResolveStep =>
        LET name == Head(todo).statement.exp.name
        IN  IF Holders(name) = {}
            THEN gen' = "CompileError" /\ out' = out
            ELSE /\ gen' = "generating"
                 /\ out' = out
                      \o <<Line("movq", Mem(_scopes[Innermost(name)][name]), Reg("rax"))>>
                      \o Epilogue
\* int a = 1; { int n = 2; { int m = 3; return r; } }
NestedRead(n, m, r) ==
    <<Declare("a", ConstantExp(1)),
      Block2(Declare(n, ConstantExp(2)),
             Block2(Declare(m, ConstantExp(3)), ReturnStatement(VarExp(r))))>>
ReadsInnermost ==
    \A n \in Names, m \in Names, r \in Names :
        proc = "exited" /\ ast = NestedRead(n, m, r) =>
            cpu.rax = IF r = m THEN 3 ELSE IF r = n THEN 2 ELSE 1
C11_InnermostFirst == [][ResolveOutcome]_vars /\ []ReadsInnermost
\* int a = 1; { int a = 2; { int b = 3; return a; } }   has returned 2.
C11_Witness ==
    /\ proc = "exited"
    /\ ast = NestedRead("a", "b", "a")
    /\ cpu.rax = 2

(* C12: in the text of one generate call every label is defined once, no   *)
(* two labels share a number, every je/jne/jmp of the finished text names  *)
(* a label the text defines, and the counter never decreases.              *)
LabelLines(text) == {i \in 1..Len(text) : text[i].op = "label:"}
Jumps(text) == {i \in 1..Len(text) : text[i].op \in {"je", "jne", "jmp"}}
LabelsUnique ==
    \A i \in LabelLines(out), j \in LabelLines(out) :
        i # j => out[i].dst # out[j].dst /\ out[i].dst.n # out[j].dst.n
JumpsDefined ==
    gen = "done" =>
        \A i \in Jumps(out) :
            Cardinality({j \in LabelLines(out) : out[j].dst = out[i].dst}) = 1
\* The jumps a step prints name labels numbered by that step.
CounterGrows ==
    /\ _label_counter' >= _label_counter
    /\ \A i \in Jumps(out') \ Jumps(out) :
          out'[i].dst.n >= _label_counter /\ out'[i].dst.n < _label_counter'
C12_LabelsUnique == []LabelsUnique /\ []JumpsDefined /\ [][CounterGrows]_vars
\* Four labels or more in a finished text: nested &&, || and ?:.
C12_Witness ==
    /\ gen = "done"
    /\ ast \in LabelPrograms
    /\ Cardinality(LabelLines(out)) >= 4
    /\ Cardinality(Jumps(out)) >= 4

-----------------------------------------------------------------------------
(* Two generate() calls on one Compiler instance.                          *)

TwicePrograms == ScopePrograms \cup LabelPrograms \cup CompoundChain

\* Compiler.generate called again, with the same program, on the instance
\* whose generate() has returned or raised: a new StringIO, the fields as the
\* earlier call left them.
generate_again ==
    /\ gen \in {"done", "CompileError"}
    /\ calls = <<>>
    /\ calls' = <<[ended |-> gen, text |-> out]>>
    /\ out' = Prologue
    /\ todo' = StatementItems(ast)
    /\ gen' = "generating"
    /\ UNCHANGED <<ast, _label_counter, _scopes, _scope, _stack_index, blocks, slots,
                   runVars, frontVars>>

NextTwice ==
    \/ \E program \in TwicePrograms : generate(program)
    \/ _generate_return_statement
    \/ _generate_exp_statement
    \/ _generate_declare_statement
    \/ _generate_if_statement
    \/ _generate_if_statement_else
    \/ _generate_if_statement_end
    \/ _generate_block_statement
    \/ _pop_scope
    \/ _generate_function
    \/ generate_again

SpecTwice == Init /\ [][NextTwice]_vars

(* C13: the generator's state is fresh for every generate(program) call:   *)
(* the second of two generate calls of the same program on one Compiler    *)
(* instance ends as the first did, with the same text.                     *)
C13_FreshStatePerCall ==
    Len(calls) = 1 /\ calls[1].ended = "done" /\ gen \in {"done", "CompileError"}
        => gen = "done" /\ out = calls[1].text

-----------------------------------------------------------------------------
(* C25: the stack index starts at -8; a Declare records the current stack  *)
(* index as the offset of the name in the innermost frame and lowers it by *)
(* 8; popping a block raises it by 8 for every name of the popped frame.   *)
(* So the stack index is always -8 * (1 + the number of names in all the   *)
(* frames of the scope stack), the offsets of the names of the live frames *)
(* are pairwise distinct, and after a block the stack index is what it was *)
(* at the entry of the block: sibling blocks use the same slots again.     *)
RECURSIVE NamesIn(_)
NamesIn(scopes) ==
    IF scopes = <<>> THEN 0 ELSE Cardinality(DOMAIN Head(scopes)) + NamesIn(Tail(scopes))
IndexCountsNames ==
    /\ Len(_scopes) = _scope + 1
    /\ _stack_index = 0 - 8 * (1 + NamesIn(_scopes))
OffsetsDistinct ==
    \A i, j \in DOMAIN _scopes : \A n \in DOMAIN _scopes[i], m \in DOMAIN _scopes[j] :
        _scopes[i][n] = _scopes[j][m] => i = j /\ n = m
StartsAtMinus8 == gen = "new" => _stack_index = 0 - 8
DeclareLowers ==
    Current("DeclareStatement") /\ gen' = "generating" =>
        /\ _scopes' = [_scopes EXCEPT ![_scope + 1] =
                           Put(@, Head(todo).statement.identifier, _stack_index)]
        /\ _stack_index' = _stack_index - 8
PopRaises ==
    gen = "generating" /\ todo # <<>> /\ Head(todo).k = "pop_scope" /\ todo' # todo =>
        /\ _stack_index' = _stack_index + 8 * Cardinality(DOMAIN _scopes[_scope + 1])
        /\ _stack_index' = Head(todo).stack_index
        /\ _scopes' = SubSeq(_scopes, 1, _scope)
OthersKeep ==
    ~Current("DeclareStatement")
    /\ ~(todo # <<>> /\ Head(todo).k = "pop_scope") =>
        _stack_index' = _stack_index
C25_StackIndexDiscipline ==
    /\ [](StartsAtMinus8 /\ IndexCountsNames /\ OffsetsDistinct)
    /\ [][DeclareLowers /\ PopRaises /\ OthersKeep]_vars
\* int a = 1; { { int a = 2; } { int b = 2; return b; } }   b of the second
\* inner block has the offset a of the first one had.
C25_Witness ==
    /\ ast = <<Declare("a", ConstantExp(1)),
               BlockStatement(<<BlockStatement(<<Declare("a", ConstantExp(2))>>),
                                BlockStatement(<<Declare("b", ConstantExp(2)),
                                                 ReturnStatement(VarExp("b"))>>)>>),
               ReturnStatement(VarExp("a"))>>
    /\ _scope = 2
    /\ _scopes = <<Put(EmptyTable, "a", 0 - 8), EmptyTable, Put(EmptyTable, "b", 0 - 16)>>
    /\ _stack_index = 0 - 24

-----------------------------------------------------------------------------
(* C26: the value in %rax at the ret that executes is the value of the     *)
(* first return statement reached at runtime; the epilogue of that return  *)
(* restores %rsp and %rbp to their values at the entry of the function,    *)
(* also inside nested blocks with live locals; and a body that ends        *)
(* without a return returns 0.                                             *)
AtRet == proc = "running" /\ out[cpu.pc].op = "ret"
C26_ReturnSemantics ==
    /\ AtRet => cpu.rsp = InitialRsp /\ mem[cpu.rsp] = ReturnAddress
    /\ AtRet => cpu.rbp = InitialRbp
    /\ \A case \in ReturnCases :
          ast = case.program /\ proc \notin {"none", "running"} =>
              proc = "exited" /\ cpu.rax = case.value

-----------------------------------------------------------------------------
(* The lexers (src/dragonpy/lexer.py, src/dragon/lexer.py).  A source is a *)
(* sequence of characters; the Lexer object's fields are the record        *)
(*   [pos, line, col, token_start_ofs, token_start]                        *)
(* (dragon calls them _pos, _line, _column, _token_start and               *)
(* _token_start_location).  A name is looked up when the line that         *)
(* mentions it runs: TokenType.X for a member X the enumeration lacks      *)
(* raises AttributeError.                                                  *)

\* What _peek returns at the end of the source (None).
NoChar == ""
\* str.isalpha, str.isdigit, str.isspace on the characters of the sources.
Alpha ==
    {"a", "b", "c", "d", "e", "f", "g", "h", "i", "j", "k", "l", "m", "n", "o", "p",
     "q", "r", "s", "t", "u", "v", "w", "x", "y", "z", "A", "B", "Z"}
Digits == <<"0", "1", "2", "3", "4", "5", "6", "7", "8", "9">>
Digit == {Digits[i] : i \in 1..10}
Space == {" ", "\n", "\t"}

\* dragonpy.token.TokenType and dragon.token.TokenKind: the members defined.
TokenType ==
    {"KwInt", "KwReturn", "Identifier", "OpenParen", "CloseParen", "OpenBrace",
     "CloseBrace", "DecimalConstant", "Semicolon", "Minus", "Tilde", "Bang", "Plus",
     "Star", "Slash", "AmpAmp", "PipePipe", "EqualEqual", "BangEqual", "Less",
     "LessEqual", "Greater", "GreaterEqual", "Percent", "Amp", "Pipe", "Caret",
     "LessLess", "GreaterGreater", "Equal", "PlusEqual", "MinusEqual", "SlashEqual",
     "StarEqual", "PercentEqual", "LessLessEqual", "GreaterGreaterEqual", "AmpEqual",
     "PipeEqual", "CaretEqual"}
TokenKind ==
    {"KW_INT", "KW_RETURN", "IDENTIFIER", "NUMBER", "OPEN_PARENTHESIS",
     "CLOSE_PARENTHESIS", "OPEN_BRACE", "CLOSE_BRACE", "SEMICOLON"}

\* The keyword tables: text :> the member each entry names.
_KEYWORDS ==
    (<<"i", "n", "t">> :> "KwInt") @@ (<<"r", "e", "t", "u", "r", "n">> :> "KwReturn")
    @@ (<<"i", "f">> :> "KwIf") @@ (<<"e", "l", "s", "e">> :> "KwElse")
    @@ (<<"f", "o", "r">> :> "KwFor") @@ (<<"w", "h", "i", "l", "e">> :> "KwWhile")
    @@ (<<"d", "o">> :> "KwDo") @@ (<<"b", "r", "e", "a", "k">> :> "KwBreak")
    @@ (<<"c", "o", "n", "t", "i", "n", "u", "e">> :> "KwContinue")
dragon_KEYWORDS ==
    (<<"i", "n", "t">> :> "KW_INT") @@ (<<"r", "e", "t", "u", "r", "n">> :> "KW_RETURN")

\* Token, IdentifierToken, DecimalConstantToken; pos is the SourcePos.
Token(type, text, pos) == [type |-> type, text |-> text, pos |-> pos]
ValueToken(type, text, pos, value) ==
    [type |-> type, text |-> text, pos |-> pos, value |-> value]

\* int(text) of a string of decimal digits.
RECURSIVE int(_)
int(text) ==
    IF text = <<>> THEN 0
    ELSE 10 * int(SubSeq(text, 1, Len(text) - 1))
         + (CHOOSE n \in 0..9 : Digits[n + 1] = text[Len(text)])

\* Lexer._peek (in dragon at or past the end: None).
Lexer__peek(src, L) == IF L.pos >= Len(src) THEN NoChar ELSE src[L.pos + 1]

\* dragonpy's Lexer._advance.
Lexer__advance(src, L) ==
    LET c == Lexer__peek(src, L)
    IN  IF c = NoChar THEN L
        ELSE [L EXCEPT !.pos = @ + 1,
                       !.line = IF c = "\n" THEN @ + 1 ELSE @,
                       !.col = IF c = "\n" THEN 1 ELSE @ + 1]

\* dragon's Lexer._advance.
dragon_Lexer__advance(src, L) ==
    LET c == Lexer__peek(src, L)
    IN  [L EXCEPT !.pos = @ + 1,
                  !.line = IF c = "\n" THEN @ + 1 ELSE @,
                  !.col = CASE c = NoChar -> @
                            [] c = "\n" -> 1
                            [] c \in Space -> @ + 1
                            [] OTHER -> @]

\* The loops of _skip_whitespace, _lex_identifier_or_keyword and
\* _lex_decimal_constant / _lex_number: advance while the next character is
\* of the class.
RECURSIVE AdvanceWhile(_, _, _, _)
AdvanceWhile(pkg, src, L, class) ==
    IF Lexer__peek(src, L) \in class
    THEN AdvanceWhile(pkg, src,
                      IF pkg = "dragon" THEN dragon_Lexer__advance(src, L)
                      ELSE Lexer__advance(src, L),
                      class)
    ELSE L

\* Lexer._text
Lexer__text(src, L) ==
    SubSeq(src, L.token_start_ofs + 1, IF L.pos > Len(src) THEN Len(src) ELSE L.pos)

\* What a call of __next__ comes to: the lexer after it, the token returned
\* or the exception raised.
Returns(L, token) == [lexer |-> L, token |-> token, ended |-> ""]
Raises(L, exception) == [lexer |-> L, token |-> <<>>, ended |-> exception]

\* The token kinds _lex names for one, two and three characters.
Single ==
    ("{" :> "OpenBrace") @@ ("}" :> "CloseBrace") @@ ("(" :> "OpenParen")
    @@ (")" :> "CloseParen") @@ (";" :> "Semicolon") @@ ("-" :> "Minus")
    @@ ("~" :> "Tilde") @@ ("!" :> "Bang") @@ ("+" :> "Plus") @@ ("*" :> "Star")
    @@ ("/" :> "Slash") @@ ("&" :> "Amp") @@ ("|" :> "Pipe") @@ ("=" :> "Equal")
    @@ ("<" :> "Less") @@ (">" :> "Greater") @@ ("%" :> "Percent")
    @@ ("^" :> "Caret") @@ ("," :> "Comma") @@ ("?" :> "Question")
    @@ (":" :> "Colon")
Double ==
    ("-" :> ("-" :> "MinusMinus")) @@ ("!" :> ("=" :> "BangEqual"))
    @@ ("+" :> (("=" :> "PlusEqual") @@ ("+" :> "PlusPlus")))
    @@ ("*" :> ("=" :> "StarEqual")) @@ ("/" :> ("=" :> "SlashEqual"))
    @@ ("&" :> (("&" :> "AmpAmp") @@ ("=" :> "AmpEqual")))
    @@ ("|" :> (("|" :> "PipePipe") @@ ("=" :> "PipeEqual")))
    @@ ("=" :> ("=" :> "EqualEqual"))
    @@ ("<" :> (("=" :> "LessEqual") @@ ("<" :> "LessLess")))
    @@ (">" :> (("=" :> "GreaterEqual") @@ (">" :> "GreaterGreater")))
    @@ ("%" :> ("=" :> "PercentEqual")) @@ ("^" :> ("=" :> "CaretEqual"))
Triple == ("LessLess" :> "LessLessEqual") @@ ("GreaterGreater" :> "GreaterGreaterEqual")

\* Lexer._add_token(TokenType.<type>): the member is looked up first.
Lexer__add_token(src, L, type) ==
    IF type \in TokenType
    THEN Returns(L, Token(type, Lexer__text(src, L), L.token_start))
    ELSE Raises(L, "AttributeError")

Lexer__lex_identifier_or_keyword(src, L) ==
    LET L1 == AdvanceWhile("dragonpy", src, L, Alpha \cup Digit)
        text == Lexer__text(src, L1)
    IN  IF text \in DOMAIN _KEYWORDS
        THEN Lexer__add_token(src, L1, _KEYWORDS[text])
        ELSE Returns(L1, ValueToken("Identifier", text, L1.token_start, text))

Lexer__lex_decimal_constant(src, L) ==
    LET L1 == AdvanceWhile("dragonpy", src, L, Digit)
        text == Lexer__text(src, L1)
    IN  Returns(L1, ValueToken("DecimalConstant", text, L1.token_start, int(text)))

\* dragonpy's Lexer._lex (Lexer.__next__).
Lexer__lex(src, L) ==
    LET Ls == AdvanceWhile("dragonpy", src, L, Space)
        L0 == [Ls EXCEPT !.token_start = [line |-> Ls.line, col |-> Ls.col],
                         !.token_start_ofs = Ls.pos]
        c == Lexer__peek(src, L0)
        L1 == Lexer__advance(src, L0)
        p == Lexer__peek(src, L1)
        L2 == Lexer__advance(src, L1)
        L3 == Lexer__advance(src, L2)
    IN  IF c = NoChar THEN Raises(L1, "StopIteration")
        ELSE IF c \in DOMAIN Double /\ p \in DOMAIN Double[c]
        THEN IF Double[c][p] \in DOMAIN Triple /\ Lexer__peek(src, L2) = "="
             THEN Lexer__add_token(src, L3, Triple[Double[c][p]])
             ELSE Lexer__add_token(src, L2, Double[c][p])
        ELSE IF c \in DOMAIN Single THEN Lexer__add_token(src, L1, Single[c])
        ELSE IF c \in Alpha THEN Lexer__lex_identifier_or_keyword(src, L1)
        ELSE IF c \in Digit THEN Lexer__lex_decimal_constant(src, L1)
        ELSE Raises(L1, "ValueError")

\* dragon's Lexer.__next__ (with _lex_identifier_or_keyword and _lex_number).
dragon_Lexer__next__(src, L) ==
    LET Ls == AdvanceWhile("dragon", src, L, Space)
        L0 == [Ls EXCEPT !.token_start = [line |-> Ls.line, col |-> Ls.col],
                         !.token_start_ofs = Ls.pos]
        c == Lexer__peek(src, L0)
        L1 == dragon_Lexer__advance(src, L0)
        punctuation ==
            ("(" :> "OPEN_PARENTHESIS") @@ (")" :> "CLOSE_PARENTHESIS")
            @@ ("{" :> "OPEN_BRACE") @@ ("}" :> "CLOSE_BRACE") @@ (";" :> "SEMICOLON")
        Li == AdvanceWhile("dragon", src, L1, Alpha \cup Digit \cup {"_"})
        Ln == AdvanceWhile("dragon", src, L1, Digit)
    IN  CASE c = NoChar -> Raises(L1, "StopIteration")
          [] c \in DOMAIN punctuation ->
                Returns(L1, ValueToken(punctuation[c], Lexer__text(src, L1),
                                       L1.token_start, <<>>))
          [] c \in Alpha ->
                Returns(Li, ValueToken(IF Lexer__text(src, Li) \in DOMAIN dragon_KEYWORDS
                                       THEN dragon_KEYWORDS[Lexer__text(src, Li)]
                                       ELSE "IDENTIFIER",
                                       Lexer__text(src, Li), Li.token_start,
                                       Lexer__text(src, Li)))
          [] c \in Digit ->
                Returns(Ln, ValueToken("NUMBER", Lexer__text(src, Ln), Ln.token_start,
                                       int(Lexer__text(src, Ln))))
          [] OTHER -> Raises(L1, "ValueError")

-----------------------------------------------------------------------------
(* The lexers at work: next(lexer) until it raises.                        *)

NewLexer ==
    [pos |-> 0, line |-> 1, col |-> 1, token_start_ofs |-> 0,
     token_start |-> [line |-> 1, col |-> 1]]

\* The sources: a lexeme, a separator, a second lexeme.
Operators1 == {<<c>> : c \in DOMAIN Single}
Operators2 == UNION {{<<c, p>> : p \in DOMAIN Double[c]} : c \in DOMAIN Double}
Operators3 == {<<"<", "<", "=">>, <<">", ">", "=">>}
Words ==
    DOMAIN _KEYWORDS
    \cup {<<"a">>, <<"a", "b">>, <<"x", "1">>, <<"a", "_", "b">>, <<"a", "_">>,
          <<"i", "n", "t", "_">>, <<"Z", "_", "1", "a">>}
Numbers == {<<"0">>, <<"1", "2">>, <<"7">>}
Lexemes ==
    Operators1 \cup Operators2 \cup Operators3
    \cup Words \cup Numbers \cup {<<"@">>, <<"_">>}
Separators == {<<>>, <<" ">>, <<"\n">>, <<" ", "\n", "\t", " ">>}
Followers ==
    {<<>>, <<"a">>, <<"b", "_">>, <<"1">>, <<"=">>, <<"+">>, <<"-">>, <<"<">>,
     <<">", ">", "=">>, <<";">>, <<"i", "n", "t">>, <<"\n", "x">>}
LexSources == {l \o s \o f : l \in Lexemes, s \in Separators, f \in Followers}
Packages == {"dragonpy", "dragon"}

\* One call of next(lexer), recorded.
Lexed(r) ==
    /\ lexer' = r.lexer
    /\ tokens' = IF r.ended = ""
                 THEN [tokens EXCEPT !.returned = Append(@, r.token),
                                     !.starts = Append(@, r.lexer.token_start_ofs)]
                 ELSE [tokens EXCEPT !.ended = r.ended]
    /\ UNCHANGED <<genVars, runVars, calls, package, source, parser, driver>>

next_Lexer ==
    /\ package = "dragonpy"
    /\ tokens.ended = ""
    /\ Lexed(Lexer__lex(source, lexer))

next_dragon_Lexer ==
    /\ package = "dragon"
    /\ tokens.ended = ""
    /\ Lexed(dragon_Lexer__next__(source, lexer))

InitLex ==
    /\ NewCompiler
    /\ package \in Packages
    /\ source \in LexSources
    /\ lexer = NewLexer
    /\ tokens = [returned |-> <<>>, starts |-> <<>>, ended |-> ""]
    /\ parser = [buffer |-> <<>>, result |-> "", program |-> <<>>]
    /\ driver = [at |-> "none", output |-> "absent"]

NextLex == next_Lexer \/ next_dragon_Lexer

SpecLex == InitLex /\ [][NextLex]_vars

-----------------------------------------------------------------------------
(* What the claims about the lexers speak of.                              *)

\* The first call of next(lexer) is over.
FirstLexed == tokens.returned # <<>> \/ tokens.ended # ""
StartsWith(src, text) == Len(src) >= Len(text) /\ SubSeq(src, 1, Len(text)) = text
\* The source is the lexeme `text` followed by nothing or by one of `after`.
Leads(text, after) ==
    /\ StartsWith(source, text)
    /\ Len(source) = Len(text) \/ source[Len(text) + 1] \in after

(* C15: the token-kind enumeration covers every kind the dragonpy lexer    *)
(* names or can return: the keyword table's entries, the punctuation and   *)
(* every operator, so lexing never fails on an undefined kind.             *)
C15_KindsCoverLexer ==
    package = "dragonpy" /\ FirstLexed /\ source[1] \notin {"@", "_"}
        => /\ tokens.ended # "AttributeError"
           /\ tokens.returned # <<>>
           /\ tokens.returned[1].type \in TokenType

(* C16: longest match.  A source that starts with one of the multi-        *)
(* character operators, followed by the end, white space, a letter or a    *)
(* digit, gives as its first token that whole operator, of its own kind    *)
(* (stated for the operators whose kind TokenType defines; the others are  *)
(* C15's).                                                                 *)
MultiCharOperators ==
    (<<"-", "-">> :> "MinusMinus") @@ (<<"+", "+">> :> "PlusPlus")
    @@ (<<"!", "=">> :> "BangEqual") @@ (<<"+", "=">> :> "PlusEqual")
    @@ (<<"-", "=">> :> "MinusEqual") @@ (<<"*", "=">> :> "StarEqual")
    @@ (<<"/", "=">> :> "SlashEqual") @@ (<<"%", "=">> :> "PercentEqual")
    @@ (<<"&", "&">> :> "AmpAmp") @@ (<<"&", "=">> :> "AmpEqual")
    @@ (<<"|", "|">> :> "PipePipe") @@ (<<"|", "=">> :> "PipeEqual")
    @@ (<<"^", "=">> :> "CaretEqual") @@ (<<"=", "=">> :> "EqualEqual")
    @@ (<<"<", "=">> :> "LessEqual") @@ (<<"<", "<">> :> "LessLess")
    @@ (<<"<", "<", "=">> :> "LessLessEqual") @@ (<<">", "=">> :> "GreaterEqual")
    @@ (<<">", ">">> :> "GreaterGreater")
    @@ (<<">", ">", "=">> :> "GreaterGreaterEqual")
C16_LongestMatch ==
    \A op \in DOMAIN MultiCharOperators :
        (/\ package = "dragonpy"
         /\ MultiCharOperators[op] \in TokenType
         /\ FirstLexed
         /\ Leads(op, Space \cup Alpha \cup Digit))
            => /\ tokens.returned # <<>>
               /\ tokens.returned[1].text = op
               /\ tokens.returned[1].type = MultiCharOperators[op]

(* C17: a lexeme [A-Za-z][A-Za-z0-9_]* that is no keyword, followed by the *)
(* end, white space or an operator, is returned by the dragonpy lexer as   *)
(* one Identifier token whose text and value are the whole lexeme.         *)
Identifiers == Words \ DOMAIN _KEYWORDS
C17_UnderscoreInIdentifiers ==
    \A w \in Identifiers :
        package = "dragonpy" /\ FirstLexed /\ Leads(w, Space \cup DOMAIN Single)
            => /\ tokens.returned # <<>>
               /\ tokens.returned[1].type = "Identifier"
               /\ tokens.returned[1].text = w
               /\ tokens.returned[1].value = w

(* C18: in both lexers every token's position is the 1-based line and      *)
(* column of its first character: one column per character before it on   *)
(* its line, white space or not; a newline starts a line at column 1.      *)
Newlines(src, ofs) == {k \in 1..ofs : src[k] = "\n"}
LineAt(src, ofs) == 1 + Cardinality(Newlines(src, ofs))
ColAt(src, ofs) ==
    LET last == IF Newlines(src, ofs) = {} THEN 0
                ELSE CHOOSE k \in Newlines(src, ofs) : \A j \in Newlines(src, ofs) : j <= k
    IN  ofs - last + 1
PositionsRight ==
    \A i \in 1..Len(tokens.returned) :
        /\ tokens.returned[i].text
             = SubSeq(source, tokens.starts[i] + 1,
                      tokens.starts[i] + Len(tokens.returned[i].text))
        /\ tokens.returned[i].pos
             = [line |-> LineAt(source, tokens.starts[i]),
                col |-> ColAt(source, tokens.starts[i])]
C18_TokenPositions == PositionsRight

-----------------------------------------------------------------------------
(* dragonpy's Parser (src/dragonpy/parser.py).  A parser P is its lexer,   *)
(* its lookahead buffer and the exception under way, "" while there is     *)
(* none; every method gives back the parser after it with what it returns. *)

NoToken == [type |-> "None"]
NewParser(L, buffer) == [lexer |-> L, buffer |-> buffer, err |-> ""]
Fail(P, exception) == [P EXCEPT !.err = exception]

\* One statement after another: Rest of the value the first one left.
Then(value, Rest(_)) == CHOOSE after \in {Rest(v) : v \in {value}} : TRUE

\* Parser._peek(n): fill the buffer up to n tokens, None once the lexer stops.
RECURSIVE Parser__peek(_, _, _)
Parser__peek(src, P, n) ==
    IF Len(P.buffer) >= n THEN [p |-> P, tok |-> P.buffer[n]]
    ELSE Then(Lexer__lex(src, P.lexer), LAMBDA r :
         IF r.ended = "StopIteration"
         THEN [p |-> [P EXCEPT !.lexer = r.lexer], tok |-> NoToken]
         ELSE IF r.ended # ""
         THEN [p |-> Fail([P EXCEPT !.lexer = r.lexer], r.ended), tok |-> NoToken]
         ELSE Parser__peek(src, [P EXCEPT !.lexer = r.lexer,
                                          !.buffer = Append(@, r.token)], n))

Parser__advance_last(src, P) ==
    Then(Parser__peek(src, P, 1), LAMBDA r :
         IF r.tok = NoToken THEN r
         ELSE [p |-> [r.p EXCEPT !.buffer = SubSeq(@, 1, Len(@) - 1)],
               tok |-> r.p.buffer[Len(r.p.buffer)]])

\* Parser._advance: the first token of the buffer leaves it.
Parser__advance(src, P) ==
    Then(Parser__peek(src, P, 1), LAMBDA r :
         IF r.tok = NoToken THEN r
         ELSE [p |-> [r.p EXCEPT !.buffer = Tail(@)], tok |-> r.tok])

\* Parser._expect (with _advance_nonnull).
Parser__expect(src, P, type) ==
    Then(Parser__advance(src, P), LAMBDA r :
         IF r.p.err # "" THEN r
         ELSE IF r.tok = NoToken \/ r.tok.type # type
         THEN [p |-> Fail(r.p, "ParseError"), tok |-> r.tok]
         ELSE r)

\* Parser._look
Parser__look(src, P, type) ==
    Then(Parser__peek(src, P, 1), LAMBDA r :
         [p |-> r.p, yes |-> r.tok # NoToken /\ r.tok.type = type])

\* Parser._match: the token when it is of one of the types, else None.
Parser__match(src, P, types) ==
    Then(Parser__peek(src, P, 1), LAMBDA r :
         IF r.tok # NoToken /\ r.tok.type \in types THEN Parser__advance(src, r.p)
         ELSE [p |-> r.p, tok |-> NoToken])

\* UnaryOpKind.get, BinaryOpKind.get, AssignKind.get for the tokens the
\* parser hands them.
UnaryOpKind_get ==
    ("Minus" :> "Negation") @@ ("Tilde" :> "BitwiseComplement")
    @@ ("Bang" :> "LogicalNegation")
BinaryOpKind_get ==
    ("Plus" :> "Addition") @@ ("Minus" :> "Subtraction")
    @@ ("Star" :> "Multiplication") @@ ("Slash" :> "Division")
    @@ ("Percent" :> "Modulo") @@ ("Less" :> "LessThan")
    @@ ("LessEqual" :> "LessThanOrEqual") @@ ("Greater" :> "GreaterThan")
    @@ ("GreaterEqual" :> "GreaterThanOrEqual") @@ ("EqualEqual" :> "Equal")
    @@ ("BangEqual" :> "NotEqual") @@ ("AmpAmp" :> "LogicalAnd")
    @@ ("PipePipe" :> "LogicalOr") @@ ("LessLess" :> "BitwiseLeftShift")
    @@ ("GreaterGreater" :> "BitwiseRightShift")
AssignKind_get ==
    ("Equal" :> "Simple") @@ ("PlusEqual" :> "Add") @@ ("MinusEqual" :> "Subtract")
    @@ ("StarEqual" :> "Multiply") @@ ("SlashEqual" :> "Divide")
    @@ ("PercentEqual" :> "Modulo") @@ ("LessLessEqual" :> "BitwiseLeftShift")
    @@ ("GreaterGreaterEqual" :> "BitwiseRightShift") @@ ("AmpEqual" :> "BitwiseAnd")
    @@ ("PipeEqual" :> "BitwiseOr") @@ ("CaretEqual" :> "BitwiseXor")

\* The chain of binary levels the parser calls, loosest first:
\* _parse_logical_or_exp, _parse_logical_and_exp, _parse_equality_exp,
\* _parse_relational_exp, _parse_shift_exp, _parse_additive_exp, _parse_term;
\* below the last one is _parse_factor.
Levels ==
    << {"PipePipe"}, {"AmpAmp"}, {"EqualEqual", "BangEqual"},
       {"Less", "LessEqual", "Greater", "GreaterEqual"},
       {"LessLess", "GreaterGreater"}, {"Plus", "Minus"},
       {"Star", "Slash", "Percent"} >>

IsVarExp_any(exp) == TRUE
\* isinstance(exp, VarExp)
IsVarExp(exp) == exp.t = "VarExp"

RECURSIVE Parser__parse_assign_exp(_, _)
RECURSIVE Parser__parse_binary_exp(_, _, _)
RECURSIVE Parser__parse_binary_rest(_, _, _, _)
RECURSIVE Parser__parse_factor(_, _)

\* Parser._parse_assign_exp (and _parse_exp, which only calls it); exp.name
\* is read of the left side, which only a VarExp has.
Parser__parse_assign_exp(src, P) ==
    Then(Parser__parse_binary_exp(src, P, 1), LAMBDA l :
    IF l.p.err # "" THEN l
    ELSE Then(Parser__match(src, l.p, DOMAIN AssignKind_get), LAMBDA m :
    IF m.p.err # "" \/ m.tok = NoToken THEN [p |-> m.p, exp |-> l.exp]
    ELSE IF ~IsVarExp(l.exp) THEN [p |-> Fail(m.p, "ParseError"), exp |-> l.exp]
    ELSE Then(Parser__parse_assign_exp(src, m.p), LAMBDA r :
    IF r.p.err # "" THEN r
    ELSE IF "name" \notin DOMAIN l.exp
    THEN [p |-> Fail(r.p, "AttributeError"), exp |-> l.exp]
    ELSE [p |-> r.p,
          exp |-> AssignExp(l.exp.name, AssignKind_get[m.tok.type], r.exp)])))

\* One binary level: an operand of the next level, then operator and
\* operand again while an operator of the level follows.
Parser__parse_binary_exp(src, P, level) ==
    IF level > Len(Levels) THEN Parser__parse_factor(src, P)
    ELSE Then(Parser__parse_binary_exp(src, P, level + 1), LAMBDA first :
         IF first.p.err # "" THEN first
         ELSE Parser__parse_binary_rest(src, first.p, level, first.exp))

Parser__parse_binary_rest(src, P, level, exp) ==
    Then(Parser__match(src, P, Levels[level]), LAMBDA m :
    IF m.p.err # "" \/ m.tok = NoToken THEN [p |-> m.p, exp |-> exp]
    ELSE Then(Parser__parse_binary_exp(src, m.p, level + 1), LAMBDA r :
    IF r.p.err # "" THEN r
    ELSE Parser__parse_binary_rest(
             src, r.p, level,
             BinaryOpExp(BinaryOpKind_get[m.tok.type], exp, r.exp))))

\* Parser._parse_factor; where no factor starts the message reads the
\* position of the token ahead, which at the end of the input is None.
Parser__parse_factor(src, P) ==
    Then(Parser__match(src, P, {"OpenParen"}), LAMBDA paren :
    IF paren.p.err # "" THEN [p |-> paren.p, exp |-> None]
    ELSE IF paren.tok # NoToken
    THEN Then(Parser__parse_assign_exp(src, paren.p), LAMBDA inner :
         IF inner.p.err # "" THEN inner
         ELSE [p |-> Parser__expect(src, inner.p, "CloseParen").p,
               exp |-> inner.exp])
    ELSE Then(Parser__match(src, paren.p, DOMAIN UnaryOpKind_get), LAMBDA unary :
    IF unary.tok # NoToken
    THEN Then(Parser__parse_factor(src, unary.p), LAMBDA operand :
         IF operand.p.err # "" THEN operand
         ELSE [p |-> operand.p,
               exp |-> UnaryOpExp(UnaryOpKind_get[unary.tok.type], operand.exp)])
    ELSE Then(Parser__match(src, unary.p, {"DecimalConstant"}), LAMBDA number :
    IF number.tok # NoToken
    THEN [p |-> number.p, exp |-> ConstantExp(number.tok.value)]
    ELSE Then(Parser__match(src, number.p, {"Identifier"}), LAMBDA name :
    IF name.tok # NoToken
    THEN [p |-> name.p, exp |-> VarExp(name.tok.value)]
    ELSE Then(Parser__peek(src, name.p, 1), LAMBDA ahead :
    [p |-> Fail(ahead.p, IF ahead.tok = NoToken THEN "AttributeError"
                         ELSE "ParseError"),
     exp |-> None])))))

\* The end of a statement: expect(Semicolon) unless an exception is under way.
Closed(src, r, statement) ==
    IF r.p.err # "" THEN [p |-> r.p, statement |-> None]
    ELSE [p |-> Parser__expect(src, r.p, "Semicolon").p, statement |-> statement]

\* Variant: a `;` ahead is taken for an empty statement and left ahead.
Parser__parse_statement_empty(src, P) ==
    IF Parser__look(src, P, "Semicolon").yes
    THEN [p |-> Parser__look(src, P, "Semicolon").p, statement |-> ExpStatement(None)]
    ELSE
    Then(Parser__look(src, P, "KwReturn"), LAMBDA ret :
    IF ret.p.err # "" THEN [p |-> ret.p, statement |-> None]
    ELSE IF ret.yes
    THEN Then(Parser__parse_assign_exp(src, Parser__expect(src, ret.p, "KwReturn").p),
              LAMBDA value : Closed(src, value, ReturnStatement(value.exp)))
    ELSE IF Parser__look(src, ret.p, "KwInt").yes
    THEN Then(Parser__expect(src, Parser__expect(src, ret.p, "KwInt").p, "Identifier"),
              LAMBDA id :
         IF id.p.err # "" THEN [p |-> id.p, statement |-> None]
         ELSE Then(Parser__match(src, id.p, {"Equal"}), LAMBDA eq :
         IF eq.p.err # "" \/ eq.tok = NoToken
         THEN Closed(src, eq, DeclareStatement(id.tok.value, None))
         ELSE Then(Parser__parse_assign_exp(src, eq.p), LAMBDA init :
              Closed(src, init,
                     DeclareStatement(id.tok.value, Initializer(init.exp))))))
    ELSE Then(Parser__parse_assign_exp(src, ret.p), LAMBDA exp :
              Closed(src, exp, ExpStatement(exp.exp))))

\* Parser._parse_statement with _parse_return_statement,
\* _parse_declare_statement and _parse_exp_statement.
Parser__parse_statement(src, P) ==
    Then(Parser__look(src, P, "KwReturn"), LAMBDA ret :
    IF ret.p.err # "" THEN [p |-> ret.p, statement |-> None]
    ELSE IF ret.yes
    THEN Then(Parser__parse_assign_exp(src, Parser__expect(src, ret.p, "KwReturn").p),
              LAMBDA value : Closed(src, value, ReturnStatement(value.exp)))
    ELSE IF Parser__look(src, ret.p, "KwInt").yes
    THEN Then(Parser__expect(src, Parser__expect(src, ret.p, "KwInt").p, "Identifier"),
              LAMBDA id :
         IF id.p.err # "" THEN [p |-> id.p, statement |-> None]
         ELSE Then(Parser__match(src, id.p, {"Equal"}), LAMBDA eq :
         IF eq.p.err # "" \/ eq.tok = NoToken
         THEN Closed(src, eq, DeclareStatement(id.tok.value, None))
         ELSE Then(Parser__parse_assign_exp(src, eq.p), LAMBDA init :
              Closed(src, init,
                     DeclareStatement(id.tok.value, Initializer(init.exp))))))
    ELSE Then(Parser__parse_assign_exp(src, ret.p), LAMBDA exp :
              Closed(src, exp, ExpStatement(exp.exp))))

\* The loop of _parse_function: statements until a closing brace is ahead.
RECURSIVE Parser__parse_statements(_, _, _)
Parser__parse_statements(src, P, statements) ==
    Then(Parser__look(src, P, "CloseBrace"), LAMBDA brace :
    IF brace.p.err # "" \/ brace.yes THEN [p |-> brace.p, statements |-> statements]
    ELSE Then(Parser__parse_statement(src, brace.p), LAMBDA s :
    IF s.p.err # "" THEN [p |-> s.p, statements |-> statements]
    ELSE Parser__parse_statements(src, s.p, Append(statements, s.statement))))

\* dragon's Parser._advance and _expect (src/dragon/parser.py); the buffer
\* is filled by _peek only, which its parser never calls before them.
dragon_Parser__advance(src, P) ==
    IF P.buffer # <<>>
    THEN [p |-> [P EXCEPT !.buffer = Tail(@)], tok |-> Head(P.buffer)]
    ELSE Then(dragon_Lexer__next__(src, P.lexer), LAMBDA r :
         IF r.ended = "StopIteration"
         THEN [p |-> [P EXCEPT !.lexer = r.lexer], tok |-> NoToken]
         ELSE IF r.ended # ""
         THEN [p |-> Fail([P EXCEPT !.lexer = r.lexer], r.ended), tok |-> NoToken]
         ELSE [p |-> [P EXCEPT !.lexer = r.lexer], tok |-> r.token])

dragon_Parser__expect(src, P, kind) ==
    Then(dragon_Parser__advance(src, P), LAMBDA r :
         IF r.p.err # "" THEN r
         ELSE IF r.tok = NoToken \/ r.tok.type # kind
         THEN [p |-> Fail(r.p, "ParseError"), tok |-> r.tok]
         ELSE r)

\* dragon's Parser._peek(distance), _look and _match.
RECURSIVE dragon_Parser__peek(_, _, _)
dragon_Parser__peek(src, P, distance) ==
    IF Len(P.buffer) > distance THEN [p |-> P, tok |-> P.buffer[distance + 1]]
    ELSE Then(dragon_Lexer__next__(src, P.lexer), LAMBDA r :
         IF r.ended = "StopIteration"
         THEN [p |-> [P EXCEPT !.lexer = r.lexer], tok |-> NoToken]
         ELSE IF r.ended # ""
         THEN [p |-> Fail([P EXCEPT !.lexer = r.lexer], r.ended), tok |-> NoToken]
         ELSE dragon_Parser__peek(src, [P EXCEPT !.lexer = r.lexer,
                                                 !.buffer = Append(@, r.token)],
                                  distance))

dragon_Parser__look(src, P, kinds) ==
    Then(dragon_Parser__peek(src, P, 0), LAMBDA r :
         [p |-> r.p, yes |-> r.tok # NoToken /\ r.tok.type \in kinds])

dragon_Parser__match(src, P, kinds) ==
    Then(dragon_Parser__look(src, P, kinds), LAMBDA r :
         IF r.p.err = "" /\ r.yes THEN dragon_Parser__advance(src, r.p)
         ELSE [p |-> r.p, tok |-> NoToken])

\* _expect of each of `types` in turn; the tokens taken.
RECURSIVE ExpectAll(_, _, _, _, _)
ExpectAll(pkg, src, P, types, taken) ==
    IF types = <<>> \/ P.err # "" THEN [p |-> P, taken |-> taken]
    ELSE Then(IF pkg = "dragon" THEN dragon_Parser__expect(src, P, Head(types))
              ELSE Parser__expect(src, P, Head(types)),
              LAMBDA r : ExpectAll(pkg, src, r.p, Tail(types), Append(taken, r.tok)))

\* Parser._parse_function
Parser__parse_function(src, P) ==
    Then(ExpectAll("dragonpy", src, P,
                   <<"KwInt", "Identifier", "OpenParen", "CloseParen", "OpenBrace">>,
                   <<>>),
         LAMBDA head :
    IF head.p.err # "" THEN [p |-> head.p, function |-> None]
    ELSE Then(Parser__parse_statements(src, head.p, <<>>), LAMBDA body :
    IF body.p.err # "" THEN [p |-> body.p, function |-> None]
    ELSE [p |-> Parser__expect(src, body.p, "CloseBrace").p,
          function |-> [id |-> head.taken[2].value,
                        statements |-> body.statements]]))

\* Parser.parse: the function, then nothing but the end of the input.
Parser_parse(src, P) ==
    Then(Parser__parse_function(src, P), LAMBDA f :
    IF f.p.err # "" THEN f
    ELSE Then(Parser__advance(src, f.p), LAMBDA end_of_file :
    IF end_of_file.p.err # "" THEN [p |-> end_of_file.p, function |-> None]
    ELSE IF end_of_file.tok # NoToken
    THEN [p |-> Fail(end_of_file.p, "ParseError"), function |-> None]
    ELSE [p |-> end_of_file.p, function |-> f.function]))

\* dragon's Parser.parse with _parse_function, _parse_statement and
\* _parse_expression: nine tokens in a row.
dragon_Parser_parse(src, P) ==
    Then(ExpectAll("dragon", src, P,
                   <<"KW_INT", "IDENTIFIER", "OPEN_PARENTHESIS", "CLOSE_PARENTHESIS",
                     "OPEN_BRACE", "KW_RETURN", "NUMBER", "SEMICOLON",
                     "CLOSE_BRACE">>, <<>>),
         LAMBDA r :
    IF r.p.err # "" THEN [p |-> r.p, function |-> None]
    ELSE [p |-> r.p,
          function |-> [id |-> r.taken[2].value,
                        statements |->
                            <<ReturnStatement(ConstantExp(r.taken[7].value))>>]])

-----------------------------------------------------------------------------
(* The parsers at work: one call of parse() on a new parser.               *)

RECURSIVE Text(_)
Text(lexemes) == IF lexemes = <<>> THEN <<>> ELSE Head(lexemes) \o Text(Tail(lexemes))

\* int main(){ <body> }
FunctionOf(body) ==
    <<"i", "n", "t", " ", "m", "a", "i", "n", "(", ")", "{">> \o body \o <<"}">>
Returning(exp) == <<"r", "e", "t", "u", "r", "n", " ">> \o exp \o <<";">>

\* Left sides that reduce to a plain variable, and left sides that do not.
VarSides == {<<"a">>, <<"(", "a", ")">>, <<"(", "(", "b", ")", ")">>}
OtherSides ==
    {<<"1">>, <<"a", "+", "1">>, <<"-", "a">>, <<"(", "1", ")">>,
     <<"a", "=", "=", "b">>, <<"(", "a", "=", "1", ")">>, <<"~", "(", "a", ")">>}
AssignOperators ==
    {<<"=">>, <<"+", "=">>, <<"*", "=">>, <<"<", "<", "=">>, <<"^", "=">>,
     <<" ", "=", " ">>}
RightSides ==
    {<<"2">>, <<"b">>, <<"b", "=", "2">>, <<"a", "*", "(", "b", "+", "1", ")">>}
AssignStatement(l, o, r) == Text(<<l, o, r, <<";">> >>)
AssignSources ==
    {FunctionOf(AssignStatement(l, o, r) \o Returning(<<"0">>)) :
        l \in VarSides \cup OtherSides, o \in AssignOperators, r \in RightSides}
    \cup {FunctionOf(AssignStatement(<<"a">>, o, AssignStatement(l, o, <<"2">>))) :
            l \in OtherSides, o \in AssignOperators}

\* Whole functions, for both parsers and for dragonpy's alone, and what may
\* come after the closing brace.
SharedFunctions ==
    {FunctionOf(Returning(<<"2">>)),
     Text(<< <<"i", "n", "t">>, <<"\n">>, <<"f">>, <<" ", "(", " ", ")", " ", "{", " ">>,
             Returning(<<"1", "0">>), <<"\n", "}">> >>)}
Functions(pkg) ==
    IF pkg = "dragon" THEN SharedFunctions
    ELSE SharedFunctions
         \cup {FunctionOf(<<>>),
               FunctionOf(Text(<< <<"i", "n", "t", " ", "a", "=", "1", ";">>,
                                  <<"a", "+", "=", "2", ";">>,
                                  Returning(<<"a", "<", "3", "|", "|", "!", "a">>) >>))}
Blank == {<<>>, <<" ">>, <<"\n">>, <<" ", "\t", "\n">>}
TokenTrailers ==
    {<<"}">>, <<";">>, <<"1">>, <<"a">>, <<"i", "n", "t">>, <<"(">>,
     <<"\n", "r", "e", "t", "u", "r", "n", " ", "0", ";">>}
    \cup {FunctionOf(Returning(<<"2">>))}
Trailers == Blank \cup TokenTrailers \cup {<<"@">>, <<" ", "#">>}
TrailerSources == {f \o t : f \in Functions("dragonpy"), t \in Trailers}

\* A function cut short, one with a token out of place, one with text that
\* is no token.
Truncated == {SubSeq(FunctionOf(Returning(<<"2">>)), 1, n) : n \in 0..20}
Misplaced ==
    {FunctionOf(body) :
        body \in {Returning(<<>>), Returning(<<"(", "2">>), Returning(<<"2", "+">>),
                  Returning(<<"2", " ", "3">>), <<"i", "n", "t", " ", "1", ";">>,
                  <<"i", "n", "t", " ", "a">>, <<"a", "=", ";">>, <<";">>,
                  <<"(", ")", ";">>}}
    \cup {<<"m", "a", "i", "n", "(", ")", "{", "}">>,
          <<"i", "n", "t", " ", "(", ")", "{", "}">>,
          <<"i", "n", "t", " ", "m", "a", "i", "n", "{", "}">>,
          <<"i", "n", "t", " ", "m", "a", "i", "n", "(", ")", "}">>}
BrokenSources ==
    Truncated \cup Misplaced
    \cup {FunctionOf(body) :
            body \in {<<"2", ";">>, <<"a", "@", ";">>, Returning(<<"a", ",", "b">>),
                      Returning(<<"a", "?", "1">>), <<"i", "f", "(", "a", ")", ";">>}}

\* return <exp>; for expressions of three operands and two operators, with
\* the tree the grammar gives each of them.
Var(c) == VarExp(<<c>>)
Inner(op, l, m, r) == BinaryOpExp(op[1], BinaryOpExp(op[2], Var(l), Var(m)), Var(r))
Outer(op, l, m, r) == BinaryOpExp(op[1], Var(l), BinaryOpExp(op[2], Var(m), Var(r)))
GrammarTrees ==
    (<<"a", "&", "&", "b", "|", "c">> :> Outer(<<"LogicalAnd", "BitwiseOr">>, "a", "b", "c"))
    @@ (<<"a", "|", "b", "&", "c">> :> Outer(<<"BitwiseOr", "BitwiseAnd">>, "a", "b", "c"))
    @@ (<<"a", "-", "b", "-", "c">> :> Inner(<<"Subtraction", "Subtraction">>, "a", "b", "c"))
    @@ (<<"a", "|", "|", "b", "&", "&", "c">>
            :> Outer(<<"LogicalOr", "LogicalAnd">>, "a", "b", "c"))
    @@ (<<"a", "&", "&", "b", "|", "|", "c">>
            :> Inner(<<"LogicalOr", "LogicalAnd">>, "a", "b", "c"))
    @@ (<<"a", "|", "|", "b", "|", "|", "c">>
            :> Inner(<<"LogicalOr", "LogicalOr">>, "a", "b", "c"))
    @@ (<<"a", "&", "&", "b", "&", "&", "c">>
            :> Inner(<<"LogicalAnd", "LogicalAnd">>, "a", "b", "c"))
    @@ (<<"a", "|", "b", "^", "c">> :> Outer(<<"BitwiseOr", "BitwiseXor">>, "a", "b", "c"))
    @@ (<<"a", "^", "b", "&", "c">> :> Outer(<<"BitwiseXor", "BitwiseAnd">>, "a", "b", "c"))
    @@ (<<"a", "&", "b", "=", "=", "c">> :> Outer(<<"BitwiseAnd", "Equal">>, "a", "b", "c"))
    @@ (<<"a", "|", "b", "|", "c">> :> Inner(<<"BitwiseOr", "BitwiseOr">>, "a", "b", "c"))
    @@ (<<"a", "&", "&", "b", "=", "=", "c">>
            :> Outer(<<"LogicalAnd", "Equal">>, "a", "b", "c"))
    @@ (<<"a", "=", "=", "b", "<", "c">> :> Outer(<<"Equal", "LessThan">>, "a", "b", "c"))
    @@ (<<"a", "=", "=", "b", "!", "=", "c">> :> Inner(<<"NotEqual", "Equal">>, "a", "b", "c"))
    @@ (<<"a", "<", "b", "<", "<", "c">>
            :> Outer(<<"LessThan", "BitwiseLeftShift">>, "a", "b", "c"))
    @@ (<<"a", "<", "b", ">", "=", "c">>
            :> Inner(<<"GreaterThanOrEqual", "LessThan">>, "a", "b", "c"))
    @@ (<<"a", "<", "<", "b", "+", "c">>
            :> Outer(<<"BitwiseLeftShift", "Addition">>, "a", "b", "c"))
    @@ (<<"a", "<", "<", "b", ">", ">", "c">>
            :> Inner(<<"BitwiseRightShift", "BitwiseLeftShift">>, "a", "b", "c"))
    @@ (<<"a", "+", "b", "*", "c">> :> Outer(<<"Addition", "Multiplication">>, "a", "b", "c"))
    @@ (<<"a", "*", "b", "+", "c">> :> Inner(<<"Addition", "Multiplication">>, "a", "b", "c"))
    @@ (<<"a", "/", "b", "%", "c">> :> Inner(<<"Modulo", "Division">>, "a", "b", "c"))
GrammarSources == {FunctionOf(Returning(text)) : text \in DOMAIN GrammarTrees}

\* Function bodies of each statement form, with the statements the grammar
\* gives them.
Word(text) == text \o <<" ">>
GrammarStatements ==
    (Returning(<<"5">>) :> <<ReturnStatement(ConstantExp(5))>>)
    @@ (<<"i", "n", "t", " ", "a", ";">> :> <<DeclareStatement(<<"a">>, None)>>)
    @@ (<<"i", "n", "t", " ", "a", "=", "0", ";">>
            :> <<DeclareStatement(<<"a">>, Initializer(ConstantExp(0)))>>)
    @@ (<<"a", "+", "1", ";">>
            :> <<ExpStatement(BinaryOpExp("Addition", Var("a"), ConstantExp(1)))>>)
    @@ (Text(<< <<"i", "n", "t", " ", "a", "=", "0", ";">>, <<"a", "=", "2", ";">>,
                Returning(<<"a">>) >>)
            :> <<DeclareStatement(<<"a">>, Initializer(ConstantExp(0))),
                 ExpStatement(AssignExp(<<"a">>, "Simple", ConstantExp(2))),
                 ReturnStatement(Var("a"))>>)
    @@ (Text(<< <<"i", "n", "t", " ", "a", "=", "0", ";">>,
                <<"i", "f", "(", "a", ")">>, Returning(<<"5">>),
                Word(<<"e", "l", "s", "e">>), Returning(<<"7">>) >>)
            :> <<DeclareStatement(<<"a">>, Initializer(ConstantExp(0))),
                 IfStatement(Var("a"), ReturnStatement(ConstantExp(5)),
                             ReturnStatement(ConstantExp(7)))>>)
    @@ (Text(<< <<"i", "f", "(", "1", ")">>, Returning(<<"5">>) >>)
            :> <<IfStatement(ConstantExp(1), ReturnStatement(ConstantExp(5)), None)>>)
    @@ (Text(<< <<"i", "f", "(", "1", ")">>, <<"i", "f", "(", "0", ")">>,
                Returning(<<"5">>), Word(<<"e", "l", "s", "e">>), Returning(<<"7">>) >>)
            :> <<IfStatement(ConstantExp(1),
                             IfStatement(ConstantExp(0), ReturnStatement(ConstantExp(5)),
                                         ReturnStatement(ConstantExp(7))),
                             None)>>)
    @@ (<<"{", "}">> :> <<BlockStatement(<<>>)>>)
    @@ (Text(<< <<"i", "n", "t", " ", "a", ";">>,
                <<"{", "i", "n", "t", " ", "a", "=", "1", ";", "{", "a", ";", "}", "}">>,
                Returning(<<"a">>) >>)
            :> <<DeclareStatement(<<"a">>, None),
                 BlockStatement(<<DeclareStatement(<<"a">>, Initializer(ConstantExp(1))),
                                  BlockStatement(<<ExpStatement(Var("a"))>>)>>),
                 ReturnStatement(Var("a"))>>)
StatementSources == {FunctionOf(text) : text \in DOMAIN GrammarStatements}

ParseSources ==
    AssignSources \cup TrailerSources \cup BrokenSources \cup GrammarSources
    \cup StatementSources

Parsed(r) ==
    /\ lexer' = r.p.lexer
    /\ parser' = [buffer |-> r.p.buffer,
                  result |-> IF r.p.err = "" THEN "Program" ELSE r.p.err,
                  program |-> r.function]
    /\ UNCHANGED <<genVars, runVars, calls, package, source, tokens>>

\* Parser(source, filename).parse()
parse ==
    /\ package = "dragonpy"
    /\ parser.result = ""
    /\ Parsed(Parser_parse(source, NewParser(lexer, parser.buffer)))
    /\ UNCHANGED driver

dragon_parse ==
    /\ package = "dragon"
    /\ parser.result = ""
    /\ Parsed(dragon_Parser_parse(source, NewParser(lexer, parser.buffer)))
    /\ UNCHANGED driver

InitParse ==
    /\ NewCompiler
    /\ package \in Packages
    /\ source \in ParseSources
    /\ lexer = NewLexer
    /\ tokens = [returned |-> <<>>, starts |-> <<>>, ended |-> ""]
    /\ parser = [buffer |-> <<>>, result |-> "", program |-> None]
    /\ driver = [at |-> "none", output |-> "absent"]

NextParse == parse \/ dragon_parse

SpecParse == InitParse /\ [][NextParse]_vars

-----------------------------------------------------------------------------
(* dragonpy's driver (src/dragonpy/__init__.py): run(args) reads the file, *)
(* parses it, generates the assembly text and only then opens the output   *)
(* path or hands the text to gcc.  An exception leaves run where it is     *)
(* raised.                                                                 *)

DriverSources ==
    {FunctionOf(body) :
        body \in {Returning(<<"2">>),
                  Text(<< <<"i", "n", "t", " ", "a", "=", "1", ";">>,
                          <<"a", "+", "=", "2", ";">>,
                          Returning(<<"a", "<", "3", "|", "|", "!", "a">>) >>),
                  Text(<< <<"i", "n", "t", " ", "a", ";">>,
                          <<"i", "n", "t", " ", "b", "=", "2", ";">>,
                          <<"a", "=", "b", "=", "3", ";">>,
                          Returning(<<"a", "*", "b">>) >>),
                  Returning(<<"a">>),
                  Text(<< <<"i", "n", "t", " ", "a", ";">>,
                          <<"i", "n", "t", " ", "a", "=", "1", ";">>,
                          Returning(<<"a">>) >>),
                  Text(<< <<"i", "n", "t", " ", "a", "=", "b", ";">>,
                          Returning(<<"0">>) >>),
                  <<"b", "=", "1", ";">>,
                  <<"1", "=", "2", ";">>}}
    \cup {f \o t : f \in {FunctionOf(Returning(<<"2">>))}, t \in Trailers}
    \cup BrokenSources

Generated_always == TRUE
\* The text is there: Compiler().generate(program) has returned.
Generated == gen = "done"

\* lines 22-27: the file is read and parsed; --dump-ast prints and exits.
run_parse ==
    /\ driver.at = "start"
    /\ Parsed(Parser_parse(source, NewParser(lexer, parser.buffer)))
    /\ driver' = [driver EXCEPT
                     !.at = IF parser'.result # "Program" THEN "raised"
                            ELSE IF driver.dump_ast THEN "exited" ELSE "parsed"]

\* line 28, to the first statement.
run_generate ==
    /\ driver.at = "parsed"
    /\ generate(parser.program.statements)

\* line 28: a CompileError of generate leaves run.
run_raise ==
    /\ driver.at = "parsed"
    /\ gen = "CompileError"
    /\ driver' = [driver EXCEPT !.at = "raised"]
    /\ UNCHANGED <<genVars, runVars, calls, package, source, lexer, tokens, parser>>

\* lines 29-37: with -S the text is written to the output path; without,
\* gcc is run on a temporary file of it and makes the output or fails.
run_output ==
    /\ driver.at = "parsed"
    /\ Generated
    /\ \E made \in IF driver.assembly THEN {"assembly"} ELSE {"executable", "absent"} :
          driver' = [driver EXCEPT !.at = "returned", !.output = made,
                                   !.gcc = ~driver.assembly]
    /\ UNCHANGED <<genVars, runVars, calls, package, source, lexer, tokens, parser>>

InitDriver ==
    /\ NewCompiler
    /\ package = "dragonpy"
    /\ source \in DriverSources
    /\ lexer = NewLexer
    /\ tokens = [returned |-> <<>>, starts |-> <<>>, ended |-> ""]
    /\ parser = [buffer |-> <<>>, result |-> "", program |-> None]
    /\ \E dump_ast, assembly \in BOOLEAN :
          driver = [at |-> "start", output |-> "absent", gcc |-> FALSE,
                    dump_ast |-> dump_ast, assembly |-> assembly]

NextDriver ==
    \/ run_parse
    \/ run_generate
    \/ _generate_return_statement
    \/ _generate_exp_statement
    \/ _generate_declare_statement
    \/ _generate_function
    \/ run_raise
    \/ run_output

SpecDriver == InitDriver /\ [][NextDriver]_vars

-----------------------------------------------------------------------------
(* The lookahead buffers at work: _peek, _look, _match, _advance and       *)
(* _expect of either parser called in any order.  tokens.returned is the   *)
(* tokens the calls took out, in the order they took them.                 *)

BufferSources ==
    SharedFunctions
    \cup {<<"a", " ", "1", "\n", "(", "@", ")", ";">>, <<"{", "a", "}">>, <<" ">>}
LookedFor ==
    IF package = "dragon" THEN {"KW_INT", "IDENTIFIER", "SEMICOLON", "OPEN_BRACE"}
    ELSE {"KwInt", "Identifier", "Semicolon", "OpenBrace"}
MaxPeek == 3
\* dragon's lexer counts every call at the end of the source; so many are
\* followed.
MaxPast == 2

\* A call is over: what it returned or raised, and the tokens it took.
Called(name, P, value, taken) ==
    /\ P.lexer.pos <= Len(source) + MaxPast
    /\ lexer' = P.lexer
    /\ parser' = [buffer |-> P.buffer,
                  result |-> IF P.err = "ParseError" THEN "" ELSE P.err,
                  program |-> None, call |-> name, returned |-> value,
                  raised |-> P.err]
    /\ tokens' = [tokens EXCEPT !.returned = @ \o taken]
    /\ UNCHANGED <<genVars, runVars, calls, package, source, driver>>
Taken(tok) == IF tok = NoToken THEN <<>> ELSE <<tok>>
Here == NewParser(lexer, parser.buffer)

\* No exception of the lexer has ended the use of the parser.
InUse == parser.result = ""

call_peek ==
    /\ InUse
    /\ \E n \in 1..MaxPeek :
          LET r == IF package = "dragon" THEN dragon_Parser__peek(source, Here, n - 1)
                   ELSE Parser__peek(source, Here, n)
          IN  Called(<<"peek", n>>, r.p, r.tok, <<>>)

call_look ==
    /\ InUse
    /\ \E type \in LookedFor :
          LET r == IF package = "dragon" THEN dragon_Parser__look(source, Here, {type})
                   ELSE Parser__look(source, Here, type)
          IN  Called(<<"look", type>>, r.p, r.yes, <<>>)

call_match ==
    /\ InUse
    /\ \E types \in {{type} : type \in LookedFor} \cup {LookedFor} :
          LET r == IF package = "dragon" THEN dragon_Parser__match(source, Here, types)
                   ELSE Parser__match(source, Here, types)
          IN  Called(<<"match", types>>, r.p, r.tok, Taken(r.tok))

call_advance ==
    /\ InUse
    /\ LET r == IF package = "dragon" THEN dragon_Parser__advance(source, Here)
                ELSE Parser__advance(source, Here)
       IN  Called(<<"advance">>, r.p, r.tok, Taken(r.tok))

call_expect ==
    /\ InUse
    /\ \E type \in LookedFor :
          LET r == IF package = "dragon" THEN dragon_Parser__expect(source, Here, type)
                   ELSE Parser__expect(source, Here, type)
          IN  Called(<<"expect", type>>, r.p, r.tok, Taken(r.tok))

InitBuffer ==
    /\ NewCompiler
    /\ package \in Packages
    /\ source \in BufferSources
    /\ lexer = NewLexer
    /\ tokens = [returned |-> <<>>, starts |-> <<>>, ended |-> ""]
    /\ parser = [buffer |-> <<>>, result |-> "", program |-> None, call |-> <<"">>,
                 returned |-> NoToken, raised |-> ""]
    /\ driver = [at |-> "none", output |-> "absent"]

NextBuffer == call_peek \/ call_look \/ call_match \/ call_advance \/ call_expect

SpecBuffer == InitBuffer /\ [][NextBuffer]_vars

-----------------------------------------------------------------------------
(* What the claims about the parsers speak of.                             *)

\* The call of parse() is over.
ParseOver == parser.result # ""

(* C19: parse() of both parsers, after the top-level function, takes one   *)
(* more token and raises a parse error if there is one; it returns the     *)
(* program only when nothing but white space follows the closing brace.    *)
C19_ParseChecksEndOfFile ==
    \A f \in Functions(package), t \in Trailers :
        source = f \o t /\ ParseOver =>
            /\ t \in Blank => parser.result = "Program"
            /\ t \in TokenTrailers => parser.result = "ParseError"
            /\ t \notin Blank => parser.result # "Program"

\* The targets of the Assign nodes of an expression.
RECURSIVE Targets(_)
Targets(exp) ==
    CASE exp.t = "AssignExp" -> {exp.left} \cup Targets(exp.right)
      [] exp.t = "BinaryOpExp" -> Targets(exp.left) \cup Targets(exp.right)
      [] exp.t = "UnaryOpExp" -> Targets(exp.exp)
      [] exp.t = "Initializer" -> Targets(exp.exp)
      [] OTHER -> {}
StatementTargets(statement) ==
    IF statement.t = "DeclareStatement" THEN Targets(statement.initializer)
    ELSE Targets(statement.exp)
\* The source assigns to a left side that is no plain variable.
AssignsToOther ==
    \/ \E l \in OtherSides, o \in AssignOperators, r \in RightSides :
          source = FunctionOf(AssignStatement(l, o, r) \o Returning(<<"0">>))
    \/ \E l \in OtherSides, o \in AssignOperators :
          source = FunctionOf(AssignStatement(<<"a">>, o, AssignStatement(l, o, <<"2">>)))
AssignsToVar ==
    \E l \in VarSides, o \in AssignOperators, r \in RightSides :
        source = FunctionOf(AssignStatement(l, o, r) \o Returning(<<"0">>))

(* C20: in dragonpy's parser an assignment operator after a left side that *)
(* is no plain Var raises a parse error and no Assign node is built; every *)
(* Assign node of a returned AST has a variable name as its target, and    *)
(* 1 = 2; is rejected.                                                     *)
C20_LvalueRule ==
    package = "dragonpy" /\ ParseOver =>
        /\ AssignsToOther => parser.result = "ParseError" /\ parser.program = None
        /\ AssignsToVar =>
              /\ parser.result = "Program"
              /\ parser.program.statements[1].exp.t = "AssignExp"
        /\ parser.result = "Program" =>
              \A i \in DOMAIN parser.program.statements :
                  StatementTargets(parser.program.statements[i])
                      \subseteq {<<"a">>, <<"b">>}
\* 1 = 2; has been rejected right after its `=`.
C20_Witness ==
    /\ package = "dragonpy"
    /\ source = FunctionOf(AssignStatement(<<"1">>, <<"=">>, <<"2">>)
                           \o Returning(<<"0">>))
    /\ parser.result = "ParseError"
    /\ lexer.pos = 13

-----------------------------------------------------------------------------
(* What the claim about the driver speaks of.                              *)

\* Lexing or parsing of the input has failed, or code generation has.
Failed == parser.result \notin {"", "Program"} \/ gen = "CompileError"
NoOutput == driver.output = "absent" /\ ~driver.gcc
OutputOnlyOfText ==
    driver.output' # driver.output \/ driver.gcc' # driver.gcc
        => parser.result = "Program" /\ gen = "done" /\ ~Failed'

(* C14: in the driver a failure of lexing, parsing or code generation      *)
(* comes before the output path is opened or written and before gcc is     *)
(* run, so after a failed compilation there is no file at the output path. *)
C14_NoOutputOnFailure == [](Failed => NoOutput) /\ [][OutputOnlyOfText]_vars
\* run has been left by the CompileError of a program that parsed, with
\* part of the text generated and nothing at the output path.
C14_Witness ==
    /\ driver.at = "raised"
    /\ parser.result = "Program"
    /\ gen = "CompileError"
    /\ out # <<>>
    /\ NoOutput

(* C21: dragonpy's parser follows the grammar's chain of binary operators, *)
(* lowest to highest ||, &&, |, ^, &, equality, relational, shift,         *)
(* additive, term, every level left-associative with operands of the next  *)
(* higher level: a && b | c is a && (b | c), a | b & c is a | (b & c) and  *)
(* a - b - c is (a - b) - c.                                               *)
C21_PrecedenceChain ==
    \A text \in DOMAIN GrammarTrees :
        package = "dragonpy" /\ source = FunctionOf(Returning(text)) /\ ParseOver =>
            /\ parser.result = "Program"
            /\ parser.program.statements = <<ReturnStatement(GrammarTrees[text])>>

(* C22: dragonpy's parser accepts every statement form of the grammar      *)
(* (return, declaration with optional initializer, if with optional else,  *)
(* the else bound to the nearest if, nested blocks, expression statements) *)
(* and builds the Return, Declare, If, Block or Expression node of it;     *)
(* int main() { int a = 0; if (a) return 5; else return 7; } parses.       *)
C22_StatementForms ==
    \A text \in DOMAIN GrammarStatements :
        package = "dragonpy" /\ source = FunctionOf(text) /\ ParseOver =>
            /\ parser.result = "Program"
            /\ parser.program.statements = GrammarStatements[text]

(* C23: when the tokens do not match the grammar (a token out of place, or *)
(* the input ending early, also where an expression is expected as right   *)
(* after `return`) dragonpy's parser fails with a ParseError; it fails     *)
(* with no other exception and returns no Program.                         *)
C23_MismatchIsParseError ==
    package = "dragonpy" /\ source \in Truncated \cup Misplaced /\ ParseOver
        => parser.result = "ParseError"

-----------------------------------------------------------------------------
(* What the claim about the lookahead buffers speaks of.                   *)

\* The tokens the lexer of the package produces for the source, until it
\* stops or raises.
RECURSIVE Produced(_, _, _)
Produced(pkg, src, L) ==
    Then(IF pkg = "dragon" THEN dragon_Lexer__next__(src, L) ELSE Lexer__lex(src, L),
         LAMBDA r : IF r.ended # "" THEN <<>>
                    ELSE <<r.token>> \o Produced(pkg, src, r.lexer))
\* A token without its value: kind, text and position tell tokens apart.
Key(tok) == IF tok = NoToken THEN <<>> ELSE <<tok.type, tok.text, tok.pos>>
Keys(toks) == [i \in DOMAIN toks |-> Key(toks[i])]
IsPrefix(s, t) == Len(s) <= Len(t) /\ s = SubSeq(t, 1, Len(s))
\* What has been taken out and what waits in the buffer is what the lexer
\* has produced so far, in its order.
InOrder ==
    IsPrefix(Keys(tokens.returned \o parser.buffer),
             Keys(Produced(package, source, NewLexer)))
\* The n-th of the tokens still to be consumed, if there are that many.
Ahead(n) ==
    LET all == Produced(package, source, NewLexer)
    IN  IF Len(tokens.returned) + n <= Len(all) THEN all[Len(tokens.returned) + n]
        ELSE NoToken
Took(toks) == Keys(tokens'.returned) = Keys(tokens.returned \o toks)
CallKeepsOrder ==
    LET call == parser'.call[1]
        returned == parser'.returned
        raised == parser'.raised
    IN  /\ call \in {"peek", "look"} => Took(<<>>)
        /\ call = "peek" /\ raised = "" => Key(returned) = Key(Ahead(parser'.call[2]))
        /\ call = "look" /\ raised = "" =>
              returned = (Ahead(1) # NoToken /\ Ahead(1).type = parser'.call[2])
        /\ call = "match" /\ raised = "" =>
              /\ Took(Taken(returned))
              /\ Key(returned) =
                    IF Ahead(1) # NoToken /\ Ahead(1).type \in parser'.call[2]
                    THEN Key(Ahead(1)) ELSE <<>>
        /\ call = "advance" /\ raised = "" =>
              Key(returned) = Key(Ahead(1)) /\ Took(Taken(Ahead(1)))
        /\ call = "expect" /\ raised \in {"", "ParseError"} =>
              /\ Took(Taken(Ahead(1)))
              /\ raised = "" <=> Ahead(1) # NoToken /\ Ahead(1).type = parser'.call[2]

(* C24: the lookahead buffer of both parsers is a FIFO in front of the     *)
(* lexer: under any sequence of peek, look, match, advance and expect      *)
(* calls the tokens are consumed in the order the lexer produced them,     *)
(* none skipped and none twice; peek, look and a match that does not match *)
(* leave the token consumed next as it was, and a match consumes the token *)
(* it returns.                                                             *)
C24_LookaheadIsFifo == []InOrder /\ [][CallKeepsOrder]_vars
\* Three tokens were peeked into the buffer, and one of them has been taken
\* out by a match.
C24_Witness ==
    /\ parser.call[1] = "match"
    /\ parser.returned # NoToken
    /\ Len(parser.buffer) = MaxPeek - 1
    /\ Len(tokens.returned) >= 2

-----------------------------------------------------------------------------
(* C27: on every runtime path, when the pushq of a Declare executes, the   *)
(* slot it writes (%rsp - 8) is at %rbp + the offset recorded for the      *)
(* name, also when a Declare is the direct branch of an if statement or    *)
(* follows such an if.                                                     *)
AtDeclaringPush(s) == proc = "running" /\ cpu.pc = s.line

SlotWritten == cpu.rsp - _SIZEOF_INT

C27_SlotIsRecordedOffset ==
    \A s \in slots : AtDeclaringPush(s) => SlotWritten = cpu.rbp + s.offset

-----------------------------------------------------------------------------
(* C28: executing the code of an expression leaves %rsp as it was before   *)
(* the expression on every runtime path: each executed `pushq %rax` of a   *)
(* binary operator is matched by exactly one executed `popq %rdi`, also    *)
(* when the operands jump (&&, ||, ?:), and the value popped is the value  *)
(* that push wrote, whatever the right operand's code did in between.      *)
ReturnedLines == (BeforeReturned + 1)..(Len(out) - 7)
IsPush(line) == out[line] = Ins1("pushq", Reg("rax"))
IsPop(line) == out[line] = Ins1("popq", Reg("rdi"))
PushesRun ==
    {j \in 1..Len(trace) : trace[j].pc \in ReturnedLines /\ IsPush(trace[j].pc)}
PopsRun ==
    {k \in 1..Len(trace) : trace[k].pc \in ReturnedLines /\ IsPop(trace[k].pc)}

\* The pops that take the word push j wrote: the stack is back at the level
\* the push left, and was never above it in between.
Partners(j) ==
    {k \in PopsRun :
        /\ k > j
        /\ \A m \in (j + 1)..k : trace[m].rsp = trace[j].rsp - 8
                                 \/ trace[m].rsp < trace[j].rsp - 8
        /\ trace[k].rsp = trace[j].rsp - 8}
Pushers(k) == {j \in PushesRun : k \in Partners(j)}

EnteredReturned == CHOOSE k \in 1..Len(trace) : trace[k].pc = BeforeReturned + 1
RspBalanced == AtReturnOfLast => cpu.rsp = trace[EnteredReturned].rsp
PushesMatched ==
    AtReturnOfLast =>
        /\ \A j \in PushesRun : Cardinality(Partners(j)) = 1
        /\ \A k \in PopsRun : Cardinality(Pushers(k)) = 1

AtPop == proc = "running" /\ cpu.pc \in ReturnedLines /\ IsPop(cpu.pc)
LastPushBelow ==
    CHOOSE j \in PushesRun :
        /\ trace[j].rsp - 8 = cpu.rsp
        /\ \A i \in PushesRun : trace[i].rsp - 8 = cpu.rsp => i <= j
PoppedIsPushed ==
    (LastStatement.t = "ReturnStatement" /\ AtPop) =>
        /\ \E j \in PushesRun : trace[j].rsp - 8 = cpu.rsp
        /\ mem[cpu.rsp] = trace[LastPushBelow].rax

C28_ExpressionBalancesStack ==
    (gen = "done" /\ Len(ast) > 0) =>
        RspBalanced /\ PushesMatched /\ PoppedIsPushed

\* A run in which a second push happened while an earlier one was still on
\* the stack, and a jump inside the expression was taken.
C28_Witness ==
    /\ gen = "done"
    /\ Len(ast) > 0
    /\ AtReturnOfLast
    /\ ast \in BalancePrograms
    /\ \E j \in PushesRun, k \in PushesRun : j < k /\ trace[k].rsp < trace[j].rsp
    /\ \E m \in 1..(Len(trace) - 1) :
          trace[m].pc \in ReturnedLines /\ trace[m + 1].pc > trace[m].pc + 1

-----------------------------------------------------------------------------
(* C29: every jump of a finished text (je, jne, jmp) targets a label that  *)
(* stands later in the text than the jump, so each executed instruction    *)
(* moves the process to a later line, the process executes no more         *)
(* instructions than the text has lines, and it stops at a `ret`, or at an *)
(* `idivq` whose divisor is 0 (SIGFPE).                                     *)
TargetOf(i) == LabelIndex(out, out[i].dst)
JumpsForward == gen = "done" => \A i \in Jumps(out) : TargetOf(i) > i
PcAdvances == (proc = "running" /\ proc' = "running") => cpu'.pc > cpu.pc
StepsBounded ==
    proc = "running" => cpu.pc \in 1..Len(out) /\ Len(trace) < cpu.pc
Stopped == proc \in {"exited", "SIGFPE", "SIGSEGV"}
LastExecuted == out[trace[Len(trace)].pc]
StopsAtRet == Stopped => LastExecuted.op = "ret"
StopsAtRetOrTrap ==
    Stopped => \/ LastExecuted.op = "ret"
               \/ proc = "SIGFPE" /\ LastExecuted.op = "idivq" /\ cpu.rdi = 0

-----------------------------------------------------------------------------
(* The loop of dragonpy's Parser._parse_function, one iteration a step.    *)

\* One iteration of `while True:` in _parse_function: the break at a
\* closing brace, or one statement.
Parser__parse_function_iteration(src, P) ==
    Then(Parser__look(src, P, "CloseBrace"), LAMBDA brace :
    IF brace.p.err # "" \/ brace.yes
    THEN [p |-> brace.p, statement |-> None, break |-> brace.p.err = ""]
    ELSE Then(Parser__parse_statement(src, brace.p), LAMBDA s :
         [p |-> s.p, statement |-> s.statement, break |-> FALSE]))

\* What follows the loop: the closing brace, then parse()'s look for the
\* end of the input.
Parser__parse_function_end(src, P) ==
    Then(Parser__expect(src, P, "CloseBrace"), LAMBDA close_brace :
    IF close_brace.p.err # "" THEN close_brace
    ELSE Then(Parser__advance(src, close_brace.p), LAMBDA end_of_file :
    IF end_of_file.p.err # "" \/ end_of_file.tok = NoToken THEN end_of_file
    ELSE [p |-> Fail(end_of_file.p, "ParseError"), tok |-> end_of_file.tok]))

InParse == package = "dragonpy" /\ parser.result = ""
Parsing == NewParser(lexer, parser.buffer)
Raised(P) == [parser EXCEPT !.buffer = P.buffer, !.at = "raised", !.result = P.err]
Went(P, next) ==
    /\ lexer' = P.lexer
    /\ parser' = IF P.err # "" THEN Raised(P) ELSE [next EXCEPT !.buffer = P.buffer]
    /\ UNCHANGED <<genVars, runVars, calls, package, source, tokens, driver>>

\* parse() to the loop of _parse_function: the five tokens of the head.
parse_function_head ==
    /\ InParse
    /\ parser.at = "parse"
    /\ \E head \in {ExpectAll("dragonpy", source, Parsing,
                                <<"KwInt", "Identifier", "OpenParen", "CloseParen",
                                  "OpenBrace">>, <<>>)} :
          Went(head.p, [parser EXCEPT !.at = "loop"])

parse_function_iteration ==
    /\ InParse
    /\ parser.at = "loop"
    /\ \E r \in {Parser__parse_function_iteration(source, Parsing)} :
          Went(r.p, IF r.break THEN [parser EXCEPT !.at = "break"]
                    ELSE [parser EXCEPT !.statements = Append(@, r.statement)])

parse_function_end ==
    /\ InParse
    /\ parser.at = "break"
    /\ \E r \in {Parser__parse_function_end(source, Parsing)} :
          Went(r.p, [parser EXCEPT !.at = "returned", !.result = "Program",
                                   !.program = parser.statements])

InitLoop ==
    /\ NewCompiler
    /\ package = "dragonpy"
    /\ source \in ParseSources
    /\ lexer = NewLexer
    /\ tokens = [returned |-> <<>>, starts |-> <<>>, ended |-> ""]
    /\ parser = [buffer |-> <<>>, result |-> "", program |-> None, at |-> "parse",
                 statements |-> <<>>]
    /\ driver = [at |-> "none", output |-> "absent"]

NextLoop == parse_function_head \/ parse_function_iteration \/ parse_function_end

\* The interpreter runs the parser on: while parse() has neither returned
\* nor raised, its next step is taken. (Weak fairness of NextLoop, with its
\* enabling condition written out.)
InLoop == InParse /\ parser.at \in {"parse", "loop", "break"}
RunsOn == []<>(~InLoop) \/ []<><<NextLoop>>_vars
SpecLoop == InitLoop /\ [][NextLoop]_vars /\ RunsOn

-----------------------------------------------------------------------------
(* C30: parsing terminates on every finite source. Each next() of the      *)
(* lexer consumes a character at least, signals the end of the input, or   *)
(* raises; each iteration of the statement loop, and of every operator     *)
(* loop, consumes a token at least or raises; parse() returns a Program or *)
(* raises after finitely many steps, also when the input ends early.       *)
LexerAt(pos) == [NewLexer EXCEPT !.pos = pos]
LexerProgress ==
    \A pos \in 0..Len(source) :
        LET r == Lexer__lex(source, LexerAt(pos))
        IN  \/ r.ended = "" /\ r.lexer.pos > pos
            \/ r.ended = "StopIteration" /\ r.lexer.pos = Len(source)
            \/ r.ended \in {"ValueError", "AttributeError"}

\* The tokens still to come: those of the buffer, and those the lexer has
\* yet to produce.
Remaining(P) == Len(P.buffer) + Len(Produced("dragonpy", source, P.lexer))

\* An iteration of an operator loop: the operator matched, then the operand.
OperatorIteration(P, level) ==
    LET m == Parser__match(source, P, Levels[level])
    IN  IF m.p.err # "" \/ m.tok = NoToken THEN [p |-> m.p, again |-> FALSE]
        ELSE [p |-> Parser__parse_binary_exp(source, m.p, level + 1).p,
              again |-> TRUE]
OperatorLoopProgress ==
    \A pos \in 0..Len(source), level \in DOMAIN Levels :
        LET P == NewParser(LexerAt(pos), <<>>)
            r == OperatorIteration(P, level)
        IN  r.again => r.p.err # "" \/ Remaining(r.p) < Remaining(P)

StatementLoopProgress ==
    (parser.at = "loop" /\ parser'.at = "loop") =>
        Remaining([lexer |-> lexer', buffer |-> parser'.buffer])
            < Remaining([lexer |-> lexer, buffer |-> parser.buffer])

IterationsBounded ==
    parser.at # "raised" =>
        Len(parser.statements) + Remaining(Parsing)
            <= Len(Produced("dragonpy", source, NewLexer))

ParseEnded ==
    \/ parser.at = "returned" /\ parser.result = "Program"
    \/ parser.at = "raised" /\ parser.result \notin {"", "Program"}

C30_ParsingTerminates ==
    /\ [](parser.at = "parse" => LexerProgress /\ OperatorLoopProgress)
    /\ [][StatementLoopProgress]_vars
    /\ []IterationsBounded
    /\ <>ParseEnded

\* parse() has returned a Program after three iterations of the loop.
C30_Witness ==
    /\ parser.at = "returned"
    /\ parser.result = "Program"
    /\ Len(parser.statements) >= 3

=============================================================================
